---- MODULE Spec2Model ----
(***************************************************************************)
(* AutoClip: audio load, timeline planner / chunker / transition pads,     *)
(* worker counts, fetch of a chunk, rendering loop and assembly of a batch *)
(* (subtitle shift, fast path, composite path and its scenes, metadata,    *)
(* batch loop) of AutoClipPipeline.run (src/src/pipeline.py), the clip     *)
(* source Matcher: get_ordered_clip, get_random_cut_clip and               *)
(* resize_and_crop (src/src/processors/matcher.py), and                    *)
(* process_single_video_task (src/src/preprocessor.py).                    *)
(*                                                                         *)
(* Python floats are modelled as a binary floating-point format with       *)
(* round-to-nearest, ties-to-even, scaled down from binary64: a value is   *)
(* an integer count of units of 2^-Frac and every arithmetic result is     *)
(* rounded to Prec significant bits.  Counts below 2^Prec are exact (the   *)
(* subnormal range of the format).                                         *)
(***************************************************************************)
EXTENDS Integers, Sequences, FiniteSets, TLC

\* ---------------------------------------------------------------- bounds
Prec == 9            \* significand bits of the float format (binary64: 53)
Frac == 10           \* the unit of a float is 2^-Frac
MaxFolders == 3      \* folders in config.folder_weights
MaxWeight == 2       \* FolderWeight.weight ranges over 0..MaxWeight
DurStep == 4         \* audio durations are multiples of DurStep seconds
MaxDurSteps == 25    \* ... up to DurStep * MaxDurSteps seconds
MaxFiles == 3        \* video files in the folder
MaxCalls == 2        \* get_ordered_clip calls in one behaviour

\* ------------------------------------------------------- float arithmetic
One == 2^Frac

RECURSIVE UlpExp(_, _, _)
\* smallest e >= 0 with num/den < 2^(Prec+e)
UlpExp(num, den, e) ==
    IF num < den * 2^(Prec + e) THEN e ELSE UlpExp(num, den, e + 1)

\* num/den (in units) rounded to Prec significant bits, ties to even
RoundSig(num, den) ==
    LET e == UlpExp(num, den, 0)
        u == den * 2^e
        m == num \div u
        r == num % u
        up == (2 * r > u) \/ (2 * r = u /\ m % 2 = 1)
    IN  (IF up THEN m + 1 ELSE m) * 2^e

\* unit in the last place of the float x
Ulp(x) == 2^UlpExp(x, 1, 0)

FDivInt(a, b) == RoundSig(a * One, b)    \* int / int  (true division)
FMul(x, y) == RoundSig(x * y, One)       \* float * float
FAdd(x, y) == RoundSig(x + y, 1)         \* float + float
FSub(x, y) == RoundSig(x - y, 1)         \* float - float, x >= y
FMin(x, y) == IF x <= y THEN x ELSE y
FMax(x, y) == IF x >= y THEN x ELSE y
Secs(n) == n * One                       \* the float n.0

RECURSIVE SumSeq(_)
SumSeq(s) == IF s = << >> THEN 0 ELSE Head(s) + SumSeq(Tail(s))

\* --------------------------------------------------------------- constants
MAX_CHUNK_DURATION == Secs(15)
TransitionTypes == {"None", "Hard Cut", "Crossfade", "Fade to Black"}
NoPad == -1          \* the task has no "pad_head"/"pad_tail" key yet

VARIABLES
    folder_weights,      \* config.folder_weights: sequence of weights
    total_duration,      \* audio duration (float)
    transition_type,     \* config.transition_type
    transition_duration, \* config.transition_duration (float)
    timeline_blocks,     \* sequence of [folder, start, end]
    current_t,           \* planner accumulator
    render_tasks,        \* sequence of task_info records
    idx_b,               \* block being chunked (0-based)
    curr,                \* chunking position inside block idx_b
    idx,                 \* render-loop position (0-based)
    pc                   \* "off", "audio", "raised", "plan", "chunk",
                         \* "render", "done"

planvars == << folder_weights, total_duration, transition_type,
               transition_duration, timeline_blocks, current_t,
               render_tasks, idx_b, curr, idx, pc >>

VARIABLES
    listing,             \* os.listdir order of the folder's video files
    file_len,            \* file name -> duration, or Unreadable
    folder_states,       \* Matcher.folder_states: folder -> cursor record
    target_duration,     \* argument of the running/last call
    remaining_duration,  \* locals of get_ordered_clip
    loop_guard,
    max_loops,
    segments_used,
    result,              \* value returned by the last call
    iterations,          \* loop iterations of the running/last call
    provenance,          \* segments returned so far by get_ordered_clip
    ncalls,              \* calls made
    read_errors,         \* "Error reading clip" lines logged by the call
    matcher_exc,         \* exception raised by the last Matcher access
    min_dur,             \* arguments and locals of get_random_cut_clip
    max_dur,
    current_len,
    safety_break,
    states_before,       \* folder_states when get_random_cut_clip was called
    spc                  \* "off", "idle", "loop", "returned", "random",
                         \* "random_returned", "reset"

\* what get_ordered_clip and reset_usage leave alone
randlocals == << min_dur, max_dur, current_len, safety_break, states_before >>

slicevars == << listing, file_len, folder_states, target_duration,
                remaining_duration, loop_guard, max_loops, segments_used,
                result, iterations, provenance, ncalls, read_errors,
                matcher_exc, randlocals, spc >>

VARIABLES
    clip_size,           \* (w, h) of the clip given to resize_and_crop
    target_size,         \* (target_w, target_h)
    out_size,            \* (w, h) of the clip returned
    same_clip,           \* the clip returned is the one given
    zpc                  \* "off", "call", "returned"

resizevars == << clip_size, target_size, out_size, same_clip, zpc >>

\* resize_and_crop is not part of the behaviour
ResizeOff ==
    /\ clip_size = << 0, 0 >>
    /\ target_size = << 0, 0 >>
    /\ out_size = << 0, 0 >>
    /\ same_clip = FALSE
    /\ zpc = "off"

VARIABLES
    cpu_count,           \* os.cpu_count(): 0 stands for None
    MAX_WORKERS,         \* workers of the ThreadPoolExecutor
    THREADS_PER_JOB,     \* encoder threads of one job
    n_tasks,             \* len(render_tasks)
    task_idx,            \* idx of "for idx, task in enumerate(render_tasks)"
    futures,             \* the list "futures": chunk indexes, in order
    job,                 \* chunk index -> state of its encode job
    yielded,             \* futures already yielded by as_completed
    chunk,               \* what the last loop iteration prepared
    batch_metadata,      \* chunk indexes of the metadata records, in order
    run_exc,             \* exception leaving the rendering loop, or ""
    generated_files,     \* output files recorded
    matcher_calls,       \* calls of the Matcher: chunk index and thread
    part_files,          \* chunk indexes of the list "part_files", in order
    rpc                  \* position of the controlling thread

rendervars == << cpu_count, MAX_WORKERS, THREADS_PER_JOB, n_tasks, task_idx,
                 futures, job, yielded, chunk, batch_metadata, run_exc,
                 generated_files, matcher_calls, part_files, rpc >>

VARIABLES
    batch_i,             \* i of "for i in range(config.batch_count)"
    batch_count,         \* config.batch_count, 0 until the loop reads it
    config_transition,   \* config.transition_type as read at line 407
    use_fast_path,       \* the local of that name
    shifted_srt,         \* offset (ms) of the file shifted_<name>, or Absent
    final_srt,           \* offset (ms) of the track at final_srt_path
    paths,               \* the assembly paths entered, in order
    fast_error,          \* where the fast path failed, or ""
    audio_duration,      \* main_audio.duration
    visual_duration,     \* duration of the assembled parts
    output_duration,     \* duration of the output written
    burned,              \* offset (ms) of the track burned into the output
    metadata_file,       \* "", "written" or "failed"
    returned             \* what run() has returned

asmvars == << batch_i, batch_count, config_transition, use_fast_path,
              shifted_srt, final_srt, paths, fast_error, audio_duration,
              visual_duration, output_duration, burned, metadata_file,
              returned >>

VARIABLES
    fetch_task,          \* the task whose clip the loop is about to fetch
    fetch_call,          \* the call of the Matcher made for it
    fpc                  \* "off", "task", "fetched"

fetchvars == << fetch_task, fetch_call, fpc >>

VARIABLES
    logical_blocks,      \* the scenes: chunk indexes of their parts
    final_video_visual   \* duration of the visual track of the composite

scenevars == << logical_blocks, final_video_visual >>

VARIABLES
    v_file,              \* what the file at v_path holds
    temp_file,           \* what the file at temp_path holds
    video_size,          \* (w, h) of the video at v_path
    target_res,          \* (tw, th)
    info,                \* what get_video_info has returned
    vf_filter,           \* the filter of the command, "" before it is built
    ffmpeg_exit,         \* how the encoder ended, "" before it has run
    task_result,         \* the pair returned
    qpc                  \* "off", "probe", "encode", "replace", "rename",
                         \* "failed", "returned"

prepvars == << v_file, temp_file, video_size, target_res, info, vf_filter,
               ffmpeg_exit, task_result, qpc >>

vars == << planvars, slicevars, rendervars, resizevars, asmvars, fetchvars,
           scenevars, prepvars >>

\* what an action of one component leaves alone
nonplanvars == << slicevars, rendervars, resizevars, asmvars, fetchvars,
                  scenevars, prepvars >>
nonslicevars == << planvars, rendervars, resizevars, asmvars, fetchvars,
                   scenevars, prepvars >>
nonrendervars == << planvars, slicevars, resizevars, asmvars, fetchvars,
                    scenevars, prepvars >>
nonresizevars == << planvars, slicevars, rendervars, asmvars, fetchvars,
                    scenevars, prepvars >>
nonbatchvars == << planvars, slicevars, resizevars, fetchvars,
                   scenevars, prepvars >>
nonfetchvars == << planvars, slicevars, rendervars, resizevars, asmvars,
                   scenevars, prepvars >>

\* no file of that name, no track chosen or burned yet
Absent == 1

\* run() has not returned
NotReturned == [done |-> FALSE, files |-> << >>]

\* the state of the assembly variables when batch i is entered
AsmStart(i, shifted) ==
    /\ batch_i = i
    /\ batch_count = 0
    /\ config_transition = ""
    /\ use_fast_path = FALSE
    /\ shifted_srt = shifted
    /\ final_srt = Absent
    /\ paths = << >>
    /\ fast_error = ""
    /\ audio_duration = 0
    /\ visual_duration = 0
    /\ output_duration = 0
    /\ burned = Absent
    /\ metadata_file = ""
    /\ returned = NotReturned

\* the assembly of the batch is not part of the behaviour
AsmOff == AsmStart(0, Absent)

\* no call of the Matcher
NoCall == [method |-> "", folder |-> "", duration |-> 0,
           min_dur |-> 0, max_dur |-> 0]

\* no pair has been returned
NoTaskResult == [success |-> FALSE, message |-> ""]

\* no video is being preprocessed
PrepOff ==
    /\ v_file = ""
    /\ temp_file = ""
    /\ video_size = << 0, 0 >>
    /\ target_res = << 0, 0 >>
    /\ info = << 0, 0 >>
    /\ vf_filter = ""
    /\ ffmpeg_exit = ""
    /\ task_result = NoTaskResult
    /\ qpc = "off"

\* no scene has been formed
SceneOff ==
    /\ logical_blocks = << >>
    /\ final_video_visual = 0

\* the fetch of a chunk's clip is not part of the behaviour
FetchOff ==
    /\ fetch_task = [folder |-> "", duration |-> 0, pad_head |-> 0,
                     pad_tail |-> 0, speed |-> 0, clip_min_duration |-> 0,
                     clip_max_duration |-> 0]
    /\ fetch_call = NoCall
    /\ fpc = "off"

\* no chunk has been prepared yet
NoChunk == [mode |-> "", videos |-> "", fetched |-> "", clip |-> "",
            duration |-> "", size |-> ""]

\* the rendering loop is not part of the behaviour
RenderOff ==
    /\ cpu_count = 0
    /\ MAX_WORKERS = 0
    /\ THREADS_PER_JOB = 0
    /\ n_tasks = 0
    /\ task_idx = 0
    /\ futures = << >>
    /\ job = << >>
    /\ yielded = {}
    /\ chunk = NoChunk
    /\ batch_metadata = << >>
    /\ run_exc = ""
    /\ generated_files = << >>
    /\ matcher_calls = << >>
    /\ part_files = << >>
    /\ rpc = "off"

\* the result before any call has returned
NoResult == [tuple |-> FALSE, clip |-> "pending", segments |-> << >>]

\* the source manager is not part of the behaviour
SliceOff ==
    /\ listing = << >>
    /\ file_len = << >>
    /\ folder_states = << >>
    /\ target_duration = 0
    /\ remaining_duration = 0
    /\ loop_guard = 0
    /\ max_loops = 0
    /\ segments_used = << >>
    /\ result = NoResult
    /\ iterations = 0
    /\ provenance = << >>
    /\ ncalls = 0
    /\ read_errors = 0
    /\ matcher_exc = ""
    /\ min_dur = 0
    /\ max_dur = 0
    /\ current_len = 0
    /\ safety_break = 0
    /\ states_before = << >>
    /\ spc = "off"

\* ---------------------------------------------------------------- planner
WeightLists ==
    UNION { [1..n -> 0..MaxWeight] : n \in 0..MaxFolders }

\* the audio durations tried (floats)
Durations == { RoundSig(Secs(DurStep * k), 1) : k \in 0..MaxDurSteps }

total_weight == SumSeq(folder_weights)

\* AudioFileClip(config.audio_path) raises
Unloadable == 0 - 1

PlanInit ==
    /\ folder_weights \in WeightLists
    /\ total_duration = 0
    /\ transition_type \in TransitionTypes
    /\ transition_duration = One \div 2
    /\ timeline_blocks = << >>
    /\ current_t = 0
    /\ render_tasks = << >>
    /\ idx_b = 0
    /\ curr = 0
    /\ idx = 0
    /\ pc = "audio"
    /\ SliceOff
    /\ RenderOff
    /\ ResizeOff
    /\ AsmOff
    /\ FetchOff
    /\ SceneOff
    /\ PrepOff

\* lines 72-79: the duration of the audio is read; an error while loading
\* it is logged and raised again
LoadAudio ==
    /\ pc = "audio"
    /\ \E d \in Durations \cup {Unloadable} :
          IF d = Unloadable
          THEN /\ pc' = "raised"
               /\ UNCHANGED total_duration
          ELSE /\ total_duration' = d
               /\ pc' = "plan"
    /\ UNCHANGED << folder_weights, transition_type, transition_duration,
                    timeline_blocks, current_t, render_tasks, idx_b, curr,
                    idx >>
    /\ UNCHANGED nonplanvars

\* share * total_duration for one folder weight
DurationShare(w) ==
    IF total_weight > 0
    THEN FMul(FDivInt(w, total_weight), total_duration)
    ELSE 0

\* one iteration of "for fw in config.folder_weights"
PlanBlock ==
    /\ pc = "plan"
    /\ Len(timeline_blocks) < Len(folder_weights)
    /\ LET k == Len(timeline_blocks) + 1
           duration_share == DurationShare(folder_weights[k])
       IN  /\ timeline_blocks' = Append(timeline_blocks,
                   [folder |-> k,
                    start |-> current_t,
                    end |-> FAdd(current_t, duration_share)])
           /\ current_t' = FAdd(current_t, duration_share)
    /\ UNCHANGED << folder_weights, total_duration, transition_type,
                    transition_duration, render_tasks, idx_b, curr, idx, pc >>
    /\ UNCHANGED nonplanvars

\* mutant: the end of the last block is left as accumulated
ClampEnd_NoClamp(end) == end

\* the clamped end of the last block
ClampEnd(end) == FMax(total_duration, end)

\* "Ensure last block covers floating point errors"
PlanClamp ==
    /\ pc = "plan"
    /\ Len(timeline_blocks) = Len(folder_weights)
    /\ LET n == Len(timeline_blocks)
       IN  /\ timeline_blocks' =
                 IF n > 0
                 THEN [timeline_blocks EXCEPT
                          ![n].end = ClampEnd(timeline_blocks[n].end)]
                 ELSE timeline_blocks
           /\ curr' = IF n > 0 THEN timeline_blocks[1].start ELSE 0
    /\ idx_b' = 0
    /\ pc' = "chunk"
    /\ UNCHANGED << folder_weights, total_duration, transition_type,
                    transition_duration, current_t, render_tasks, idx >>
    /\ UNCHANGED nonplanvars

\* ---------------------------------------------------------------- chunker
\* mutant: the chunk end is not capped by the block end
NextT_NoMin(c, b_end) == FAdd(c, MAX_CHUNK_DURATION)

\* min(curr + MAX_CHUNK_DURATION, b_end)
NextT(c, b_end) == FMin(FAdd(c, MAX_CHUNK_DURATION), b_end)

\* the "is_block_end" flag of a chunk ending at next_t
IsBlockEnd(next_t, b_end) == (next_t = b_end)

\* the "is_block_start" flag of a chunk starting at c
IsBlockStart(c, b_start) == (c = b_start)

\* one iteration of "while curr < b_end" for block idx_b
ChunkStep ==
    /\ pc = "chunk"
    /\ idx_b < Len(timeline_blocks)
    /\ LET block == timeline_blocks[idx_b + 1]
           next_t == NextT(curr, block.end)
       IN  /\ curr < block.end
           /\ render_tasks' = Append(render_tasks,
                   [start |-> curr,
                    end |-> next_t,
                    folder |-> block.folder,
                    duration |-> FSub(next_t, curr),
                    is_block_start |-> IsBlockStart(curr, block.start),
                    is_block_end |-> IsBlockEnd(next_t, block.end),
                    block_index |-> idx_b,
                    total_blocks |-> Len(timeline_blocks),
                    pad_head |-> NoPad,
                    pad_tail |-> NoPad])
           /\ curr' = next_t
    /\ UNCHANGED << folder_weights, total_duration, transition_type,
                    transition_duration, timeline_blocks, current_t,
                    idx_b, idx, pc >>
    /\ UNCHANGED nonplanvars

\* "while curr < b_end" is false: next block of "for idx_b, block in ..."
ChunkNextBlock ==
    /\ pc = "chunk"
    /\ idx_b < Len(timeline_blocks)
    /\ curr >= timeline_blocks[idx_b + 1].end
    /\ idx_b' = idx_b + 1
    /\ curr' = IF idx_b + 1 < Len(timeline_blocks)
               THEN timeline_blocks[idx_b + 2].start
               ELSE curr
    /\ UNCHANGED << folder_weights, total_duration, transition_type,
                    transition_duration, timeline_blocks, current_t,
                    render_tasks, idx, pc >>
    /\ UNCHANGED nonplanvars

\* all blocks are chunked: the render loop starts
ChunkDone ==
    /\ pc = "chunk"
    /\ idx_b = Len(timeline_blocks)
    /\ idx' = 0
    /\ pc' = "render"
    /\ UNCHANGED << folder_weights, total_duration, transition_type,
                    transition_duration, timeline_blocks, current_t,
                    render_tasks, idx_b, curr >>
    /\ UNCHANGED nonplanvars

\* --------------------------------------------------------- transition logic
has_trans == transition_type # "None" /\ transition_type # "无"

\* mutant: any transition type pads the head
PadHead_AnyTransition(task) ==
    IF has_trans /\ task.is_block_start /\ task.block_index > 0
    THEN transition_duration ELSE 0

PadHead(task) ==
    IF has_trans /\ task.is_block_start /\ task.block_index > 0
       /\ transition_type = "Crossfade"
    THEN transition_duration ELSE 0

\* mutant: the block before the last gets no tail pad
PadTail_OffByOne(task) ==
    IF has_trans /\ task.is_block_end
       /\ task.block_index < task.total_blocks - 2
       /\ transition_type = "Crossfade"
    THEN transition_duration ELSE 0

PadTail(task) ==
    IF has_trans /\ task.is_block_end
       /\ task.block_index < task.total_blocks - 1
       /\ transition_type = "Crossfade"
    THEN transition_duration ELSE 0

\* one iteration of "for idx, task in enumerate(render_tasks)":
\* the pads are injected into the task
PrepareChunk ==
    /\ pc = "render"
    /\ idx < Len(render_tasks)
    /\ LET task == render_tasks[idx + 1]
       IN  render_tasks' = [render_tasks EXCEPT
               ![idx + 1].pad_head = PadHead(task),
               ![idx + 1].pad_tail = PadTail(task)]
    /\ idx' = idx + 1
    /\ UNCHANGED << folder_weights, total_duration, transition_type,
                    transition_duration, timeline_blocks, current_t,
                    idx_b, curr, pc >>
    /\ UNCHANGED nonplanvars

RenderDone ==
    /\ pc = "render"
    /\ idx = Len(render_tasks)
    /\ pc' = "done"
    /\ UNCHANGED << folder_weights, total_duration, transition_type,
                    transition_duration, timeline_blocks, current_t,
                    render_tasks, idx_b, curr, idx >>
    /\ UNCHANGED nonplanvars

PlanNext ==
    \/ LoadAudio
    \/ PlanBlock
    \/ PlanClamp
    \/ ChunkStep
    \/ ChunkNextBlock
    \/ ChunkDone
    \/ PrepareChunk
    \/ RenderDone

PlanSpec == PlanInit /\ [][PlanNext]_vars

\* ============================================================= Matcher
Folder == "folder"        \* the folder_path of the calls
Unreadable == -1          \* VideoFileClip(path) raises
FileLens == { Unreadable, 0, Secs(2), Secs(5) }
Targets == { Secs(2), Secs(5) - One \div 16, Secs(12) }
Tenth == RoundSig(One, 10)               \* the float 0.1

\* float - float of either sign
FSubS(x, y) == IF x >= y THEN RoundSig(x - y, 1) ELSE 0 - RoundSig(y - x, 1)

\* the orders in which os.listdir may list n files named 1..n
Listings(n) ==
    { p \in [1..n -> 1..n] : \A i, j \in 1..n : i # j => p[i] # p[j] }

\* the source manager alone; the planner is not part of the behaviour
PlanOff ==
    /\ folder_weights = << >>
    /\ total_duration = 0
    /\ transition_type = "None"
    /\ transition_duration = 0
    /\ timeline_blocks = << >>
    /\ current_t = 0
    /\ render_tasks = << >>
    /\ idx_b = 0
    /\ curr = 0
    /\ idx = 0
    /\ pc = "off"

SliceInit ==
    /\ PlanOff
    /\ RenderOff
    /\ ResizeOff
    /\ AsmOff
    /\ FetchOff
    /\ SceneOff
    /\ PrepOff
    /\ \E n \in 0..MaxFiles :
          /\ listing \in Listings(n)
          /\ file_len \in [1..n -> FileLens]
    /\ folder_states = << >>
    /\ target_duration = 0
    /\ remaining_duration = 0
    /\ loop_guard = 0
    /\ max_loops = 0
    /\ segments_used = << >>
    /\ result = NoResult
    /\ iterations = 0
    /\ provenance = << >>
    /\ ncalls = 0
    /\ read_errors = 0
    /\ matcher_exc = ""
    /\ min_dur = 0
    /\ max_dur = 0
    /\ current_len = 0
    /\ safety_break = 0
    /\ states_before = << >>
    /\ spc = "idle"

\* mutant: the listing is used as found
SortedVideos_Unsorted(files) == files

\* sorted(get_video_files(folder_path))
SortedVideos(files) == SortSeq(files, LAMBDA a, b : a < b)

\* Matcher._init_folder_state
InitFolderState(fs) ==
    IF Folder \in DOMAIN fs
    THEN fs
    ELSE (Folder :> [videos |-> SortedVideos(listing),
                     current_vid_idx |-> 0,
                     current_time |-> 0]) @@ fs

\* "return None" for a folder without videos
NoneBare == [tuple |-> FALSE, clip |-> "None", segments |-> << >>]
\* "return None, []"
NoneTuple == [tuple |-> TRUE, clip |-> "None", segments |-> << >>]

\* get_ordered_clip, up to the loop
CallOrdered ==
    /\ spc \in {"idle", "returned", "random_returned", "reset"}
    /\ ncalls < MaxCalls
    /\ \E d \in Targets :
          LET fs == InitFolderState(folder_states)
              videos == fs[Folder].videos
          IN  /\ folder_states' = fs
              /\ target_duration' = d
              /\ remaining_duration' = d
              /\ segments_used' = << >>
              /\ loop_guard' = 0
              /\ iterations' = 0
              /\ IF videos = << >>
                 THEN /\ result' = NoneBare
                      /\ max_loops' = 0
                      /\ spc' = "returned"
                 ELSE /\ result' = NoResult
                      /\ max_loops' = Len(videos) * 2
                      /\ spc' = "loop"
    /\ ncalls' = ncalls + 1
    /\ read_errors' = 0
    /\ matcher_exc' = ""
    /\ UNCHANGED << listing, file_len, provenance, randlocals >>
    /\ UNCHANGED nonslicevars

\* mutant: the length of the cut is recorded as its end
SegmentEnd_Length(start_t, dur) == dur

\* "source_end": start_t + take_time, start_t + actual_dur
SegmentEnd(start_t, dur) == FAdd(start_t, dur)

\* mutant: the index does not wrap around
NextVidIdx_NoWrap(i, n) == i + 1

\* (current_vid_idx + 1) % len(videos)
NextVidIdx(i, n) == (i + 1) % n

\* mutant: the skip branch forgets the loop guard
GuardAfterSkip_Forgotten(g) == g

\* "loop_guard += 1" of the "Video finished" branch
GuardAfterSkip(g) == g + 1

\* "state['current_time'] >= video_len - 0.1"
FinishedVideo(t, video_len) == t >= FSubS(video_len, Tenth)

\* mutant: the cursor is not advanced by the taken time
TimeAfterTake_Stuck(start_t, take_time) == start_t

\* "state['current_time'] += take_time"
TimeAfterTake(start_t, take_time) == FAdd(start_t, take_time)

\* one iteration of "while remaining_duration > 0 and loop_guard < max_loops"
LoopStep ==
    /\ spc = "loop"
    /\ remaining_duration > 0
    /\ loop_guard < max_loops
    /\ LET state == folder_states[Folder]
           videos == state.videos
           video_path == videos[state.current_vid_idx + 1]
           video_len == file_len[video_path]
           start_t == state.current_time
           available_time == FSubS(video_len, start_t)
           take_time == FMin(available_time, remaining_duration)
           moved == [state EXCEPT
                       !.current_vid_idx =
                           NextVidIdx(state.current_vid_idx, Len(videos)),
                       !.current_time = 0]
       IN  IF video_len = Unreadable
           THEN \* except Exception: skip to next video
                /\ folder_states' = [folder_states EXCEPT ![Folder] = moved]
                /\ loop_guard' = loop_guard + 1
                /\ read_errors' = read_errors + 1
                /\ UNCHANGED << remaining_duration, segments_used >>
           ELSE IF available_time <= 0
           THEN \* "Video finished (Exact/Over). Moving to next."
                /\ folder_states' = [folder_states EXCEPT ![Folder] = moved]
                /\ loop_guard' = GuardAfterSkip(loop_guard)
                /\ UNCHANGED << remaining_duration, segments_used,
                                read_errors >>
           ELSE /\ segments_used' = Append(segments_used,
                      [source_file |-> video_path,
                       source_start |-> start_t,
                       source_end |-> SegmentEnd(start_t, take_time),
                       duration |-> take_time])
                /\ remaining_duration' = FSubS(remaining_duration, take_time)
                /\ folder_states' = [folder_states EXCEPT ![Folder] =
                      IF FinishedVideo(TimeAfterTake(start_t, take_time),
                                       video_len)
                      THEN moved
                      ELSE [state EXCEPT !.current_time =
                                TimeAfterTake(start_t, take_time)]]
                /\ loop_guard' = loop_guard + 1
                /\ UNCHANGED read_errors
    /\ iterations' = iterations + 1
    /\ UNCHANGED << listing, file_len, target_duration, max_loops, result,
                    provenance, ncalls, matcher_exc, randlocals, spc >>
    /\ UNCHANGED nonslicevars

\* the value returned after the loop
LoopResult(segs) ==
    IF segs = << >>
    THEN NoneTuple
    ELSE [tuple |-> TRUE,
          clip |-> IF Len(segs) = 1 THEN "subclip" ELSE "concatenated",
          segments |-> segs]

\* the loop condition is false: return
Return ==
    /\ spc = "loop"
    /\ ~(remaining_duration > 0 /\ loop_guard < max_loops)
    /\ result' = LoopResult(segments_used)
    /\ provenance' = provenance \o segments_used
    /\ spc' = "returned"
    /\ UNCHANGED << listing, file_len, folder_states, target_duration,
                    remaining_duration, loop_guard, max_loops, segments_used,
                    iterations, ncalls, read_errors, matcher_exc,
                    randlocals >>
    /\ UNCHANGED nonslicevars

\* the attributes class Matcher defines
MatcherAttributes ==
    { "__init__", "_init_folder_state", "get_ordered_clip",
      "get_random_cut_clip", "resize_and_crop", "input_folders",
      "folder_states" }

\* "self.matcher.reset_usage()" at the start of a batch: the attribute
\* lookup fails, AttributeError leaves run() and the Matcher is as it was
ResetUsage ==
    /\ spc \in {"idle", "returned", "random_returned"}
    /\ "reset_usage" \notin MatcherAttributes
    /\ matcher_exc' = "AttributeError"
    /\ spc' = "reset"
    /\ UNCHANGED << listing, file_len, folder_states, target_duration,
                    remaining_duration, loop_guard, max_loops, segments_used,
                    result, iterations, provenance, ncalls, read_errors,
                    randlocals >>
    /\ UNCHANGED nonslicevars

SliceNext ==
    \/ CallOrdered
    \/ LoopStep
    \/ Return
    \/ ResetUsage

SliceSpec == SliceInit /\ [][SliceNext]_vars

\* ================================================== get_random_cut_clip
\* the folders whose random cuts are followed: the lengths of their files
\* a file so long that its float length has a resolution of one second
LongFile == Secs(2 ^ (Prec - 1) + 8)
RandFolders ==
    { << >>, << Secs(1) >>, << Secs(10) >>, << Unreadable, Secs(10) >>,
      << Secs(1), Secs(10) >>, << LongFile >> }
\* target_total_duration of the calls: 4.5, and 10.0 as well on a folder
\* whose every file is long enough for any cut
RandTargets(lens) ==
    IF \A f \in 1..Len(lens) : lens[f] >= Secs(10)
    THEN { Secs(4) + One \div 2, Secs(10) }
    ELSE { Secs(4) + One \div 2 }
\* (min_dur, max_dur) of the calls
RandBounds == { << Secs(2), Secs(4) >> }
Twentieth == RoundSig(One, 20)           \* the float 0.05
SAFETY_BREAK_MAX == 100                  \* "safety_break < 100"

\* the source manager with both ways of cutting
RandInit ==
    /\ PlanOff
    /\ RenderOff
    /\ ResizeOff
    /\ AsmOff
    /\ FetchOff
    /\ SceneOff
    /\ PrepOff
    /\ file_len \in RandFolders
    /\ listing \in Listings(Len(file_len))
    /\ folder_states = << >>
    /\ target_duration = 0
    /\ remaining_duration = 0
    /\ loop_guard = 0
    /\ max_loops = 0
    /\ segments_used = << >>
    /\ result = NoResult
    /\ iterations = 0
    /\ provenance = << >>
    /\ ncalls = 0
    /\ read_errors = 0
    /\ matcher_exc = ""
    /\ min_dur = 0
    /\ max_dur = 0
    /\ current_len = 0
    /\ safety_break = 0
    /\ states_before = << >>
    /\ spc = "idle"

\* the values of random.uniform(lo, hi) that are followed: both ends and
\* the point three quarters of the way
Draws(lo, hi) == { lo, RoundSig(lo + 3 * hi, 4), hi }

\* get_random_cut_clip, up to the loop
CallRandom ==
    /\ spc \in {"idle", "returned", "random_returned", "reset"}
    /\ ncalls < MaxCalls
    /\ \E d \in RandTargets(file_len), b \in RandBounds :
          LET fs == InitFolderState(folder_states)
              videos == fs[Folder].videos
          IN  /\ states_before' = folder_states
              /\ folder_states' = fs
              /\ target_duration' = d
              /\ min_dur' = b[1]
              /\ max_dur' = b[2]
              /\ segments_used' = << >>
              /\ current_len' = 0
              /\ safety_break' = 0
              /\ IF videos = << >>
                 THEN /\ result' = NoneTuple
                      /\ spc' = "random_returned"
                 ELSE /\ result' = NoResult
                      /\ spc' = "random"
    /\ ncalls' = ncalls + 1
    /\ matcher_exc' = ""
    /\ UNCHANGED << listing, file_len, remaining_duration, loop_guard,
                    max_loops, iterations, provenance, read_errors >>
    /\ UNCHANGED nonslicevars

\* mutant: the last cut is the drawn length, whatever is left
ThisDur_Drawn(draw, remaining) == draw

\* the length of the next cut: the drawn length, or all that is left when
\* the draw is longer or would leave less than 1.0
ThisDur(draw, remaining) ==
    IF draw > remaining THEN remaining
    ELSE IF FSubS(remaining, draw) < One THEN remaining
    ELSE draw

\* the value returned: (None, []), the only cut, or the concatenation
RandomResult(segs) == LoopResult(segs)

\* mutant: a cut moves the sequential cursor to the file it was taken from
StateAfterCut_Moved(fs, vid_path, end_t) ==
    [fs EXCEPT ![Folder].current_vid_idx = vid_path - 1,
               ![Folder].current_time = end_t]

\* the folder states after a random cut: they are not written
StateAfterCut(fs, vid_path, end_t) == fs

\* one iteration of "while current_len < target_total_duration and
\* safety_break < 100"
RandomStep ==
    /\ spc = "random"
    /\ current_len < target_duration
    /\ safety_break < SAFETY_BREAK_MAX
    /\ LET remaining == FSubS(target_duration, current_len)
           videos == folder_states[Folder].videos
       IN  \E draw \in Draws(min_dur, max_dur) :
             LET this_dur == ThisDur(draw, remaining)
             IN  IF this_dur <= Twentieth
                 THEN \* break: the method returns what it has and
                      \* its locals are gone
                      /\ result' = RandomResult(segments_used)
                      /\ spc' = "random_returned"
                      /\ segments_used' = << >>
                      /\ current_len' = 0
                      /\ safety_break' = 0
                      /\ UNCHANGED folder_states
                 ELSE \E k \in 1..Len(videos) :
                        LET vid_path == videos[k]
                            vid_len == file_len[vid_path]
                        IN  IF vid_len = Unreadable \/ vid_len < this_dur
                            THEN \* unreadable or too short: try again
                                 /\ safety_break' = safety_break + 1
                                 /\ UNCHANGED << segments_used, current_len,
                                                 result, spc, folder_states >>
                            ELSE \E start_t \in {0, FSubS(vid_len, this_dur)} :
                                   /\ segments_used' = Append(segments_used,
                                        [source_file |-> vid_path,
                                         source_start |-> start_t,
                                         source_end |-> SegmentEnd(start_t, this_dur),
                                         duration |-> this_dur,
                                         is_random_cut |-> TRUE])
                                   /\ current_len' = FAdd(current_len, this_dur)
                                   /\ folder_states' =
                                        StateAfterCut(folder_states, vid_path,
                                                      FAdd(start_t, this_dur))
                                   /\ UNCHANGED << safety_break, result, spc >>
    /\ UNCHANGED << listing, file_len, target_duration, remaining_duration,
                    loop_guard, max_loops, iterations, provenance, ncalls,
                    read_errors, matcher_exc, min_dur, max_dur,
                    states_before >>
    /\ UNCHANGED nonslicevars

\* the loop condition is false: the method returns and its locals are gone
RandomReturn ==
    /\ spc = "random"
    /\ ~(current_len < target_duration /\ safety_break < SAFETY_BREAK_MAX)
    /\ result' = RandomResult(segments_used)
    /\ spc' = "random_returned"
    /\ segments_used' = << >>
    /\ current_len' = 0
    /\ safety_break' = 0
    /\ UNCHANGED << listing, file_len, folder_states, target_duration,
                    remaining_duration, loop_guard, max_loops,
                    iterations, provenance, ncalls, read_errors, matcher_exc,
                    min_dur, max_dur, states_before >>
    /\ UNCHANGED nonslicevars

RandNext ==
    \/ CallRandom
    \/ RandomStep
    \/ RandomReturn
    \/ CallOrdered
    \/ LoopStep
    \/ Return

RandSpec == RandInit /\ [][RandNext]_vars

\* ====================================================== rendering loop
MaxCores == 64             \* os.cpu_count() ranges over None, 1..MaxCores
MaxTasks == 5              \* len(render_tasks) ranges over 0..MaxTasks

Min2(a, b) == IF a <= b THEN a ELSE b
Max2(a, b) == IF a >= b THEN a ELSE b

\* os.cpu_count() of the machine whose rendering loop is followed
RenderCpuCounts == {4}

\* "cpu_cores = os.cpu_count() or 16"
CpuCores(count) == IF count = 0 THEN 16 ELSE count

\* "MAX_WORKERS = max(2, min(16, cpu_cores // 2))"
MaxWorkers(cpu_cores) == Max2(2, Min2(16, cpu_cores \div 2))

\* "THREADS_PER_JOB = max(2, min(8, int(cpu_cores / MAX_WORKERS)))": the
\* quotient of two small positive ints, truncated
ThreadsPerJob(cpu_cores) ==
    Max2(2, Min2(8, cpu_cores \div MaxWorkers(cpu_cores)))

\* the state of the rendering loop before the worker counts are derived
RenderStart(counts, tasks) ==
    /\ cpu_count \in counts
    /\ MAX_WORKERS = 0
    /\ THREADS_PER_JOB = 0
    /\ n_tasks \in tasks
    /\ task_idx = 0
    /\ futures = << >>
    /\ job = [k \in 0..(n_tasks - 1) |-> "none"]
    /\ yielded = {}
    /\ chunk = NoChunk
    /\ batch_metadata = << >>
    /\ run_exc = ""
    /\ generated_files = << >>
    /\ matcher_calls = << >>
    /\ part_files = << >>
    /\ rpc = "cores"

\* the worker counts alone
CoresInit ==
    /\ PlanOff
    /\ SliceOff
    /\ ResizeOff
    /\ AsmOff
    /\ FetchOff
    /\ SceneOff
    /\ PrepOff
    /\ RenderStart(0..MaxCores, {0})

RenderInit ==
    /\ PlanOff
    /\ SliceOff
    /\ ResizeOff
    /\ AsmOff
    /\ FetchOff
    /\ SceneOff
    /\ PrepOff
    /\ RenderStart(RenderCpuCounts, 0..MaxTasks)

\* the worker counts of the batch
DeriveWorkers ==
    /\ rpc = "cores"
    /\ MAX_WORKERS' = MaxWorkers(CpuCores(cpu_count))
    /\ THREADS_PER_JOB' = ThreadsPerJob(CpuCores(cpu_count))
    /\ rpc' = "loop"
    /\ UNCHANGED << matcher_calls, part_files, cpu_count, n_tasks,
                    task_idx, futures, job, yielded, chunk, batch_metadata,
                    run_exc, generated_files >>
    /\ UNCHANGED nonrendervars

CoresSpec == CoresInit /\ [][DeriveWorkers]_vars

\* what the source folder of a chunk holds: no video file, video files none
\* of which can be used, or usable video files
FolderKinds == {"none", "unusable", "usable"}
Modes == {"ordered", "random"}

\* a clip cut from the folder
SourceClip == [tuple |-> TRUE, clip |-> "clip", segments |-> << >>]

\* what the Matcher returns for the chunk: get_ordered_clip returns a bare
\* None for a folder without videos, get_random_cut_clip returns (None, [])
Fetch(mode, videos) ==
    IF videos = "usable" THEN SourceClip
    ELSE IF mode = "ordered" /\ videos = "none" THEN NoneBare
    ELSE NoneTuple

\* "while len(futures) >= MAX_WORKERS * 2"; mutant: one more is let through
MustWait_OneMore(n) == n > MAX_WORKERS * 2

\* "while len(futures) >= MAX_WORKERS * 2"
MustWait(n) == n >= MAX_WORKERS * 2

Finished(f) == job[f] \in {"ok", "failed"}

\* the futures of a list that are complete
DoneOf(fs) == { fs[k] : k \in { j \in 1..Len(fs) : Finished(fs[j]) } }

\* mutant: the errors of finished futures are not looked at
DoneRaises_Unchecked(done) == FALSE

\* "for f in done: if f.exception(): raise f.exception()"
DoneRaises(done) == \E f \in done : job[f] = "failed"

\* "futures = list(not_done)"
NotDone(fs) == SelectSeq(fs, LAMBDA f : ~Finished(f))

\* lines 243-249: the list is full and wait() returns the finished futures
Backpressure ==
    /\ rpc = "loop"
    /\ task_idx < n_tasks
    /\ MustWait(Len(futures))
    /\ DoneOf(futures) # {}
    /\ IF DoneRaises(DoneOf(futures))
       THEN /\ run_exc' = "EncodeError"
            /\ rpc' = "exit"
            /\ UNCHANGED futures
       ELSE /\ futures' = NotDone(futures)
            /\ UNCHANGED << run_exc, rpc >>
    /\ UNCHANGED << matcher_calls, part_files, cpu_count, MAX_WORKERS,
                    THREADS_PER_JOB, n_tasks,
                    task_idx, job, yielded, chunk, batch_metadata,
                    generated_files >>
    /\ UNCHANGED nonrendervars

\* lines 299-321: the loop asks the Matcher for the clip of chunk k
ControllerMatcherCalls(k) == << [chunk |-> k, thread |-> "main"] >>

\* lines 251-363: one chunk is fetched, prepared and submitted
SubmitChunk ==
    /\ rpc = "loop"
    /\ task_idx < n_tasks
    /\ ~MustWait(Len(futures))
    /\ matcher_calls' = matcher_calls \o ControllerMatcherCalls(task_idx)
    /\ \E mode \in Modes, videos \in FolderKinds :
          LET fetched == Fetch(mode, videos)
          IN  IF ~fetched.tuple
              THEN \* "video_clip, segment_meta = None": TypeError, re-raised
                   /\ chunk' = [mode |-> mode, videos |-> videos,
                                fetched |-> "None", clip |-> "",
                                duration |-> "", size |-> ""]
                   /\ run_exc' = "TypeError"
                   /\ rpc' = "exit"
                   /\ UNCHANGED << task_idx, futures, job, batch_metadata >>
              ELSE /\ chunk' =
                        IF fetched.clip = "None"
                        THEN [mode |-> mode, videos |-> videos,
                              fetched |-> "None, []", clip |-> "ColorClip",
                              duration |-> "needed_duration",
                              size |-> "config.width, config.height"]
                        ELSE [mode |-> mode, videos |-> videos,
                              fetched |-> "clip, segments", clip |-> "source",
                              duration |-> "needed_duration",
                              size |-> "resize_and_crop"]
                   /\ batch_metadata' =
                        IF fetched.clip = "None" THEN batch_metadata
                        ELSE Append(batch_metadata, task_idx)
                   /\ job' = [job EXCEPT ![task_idx] = "queued"]
                   /\ futures' = Append(futures, task_idx)
                   /\ task_idx' = task_idx + 1
                   /\ UNCHANGED << run_exc, rpc >>
    /\ UNCHANGED << part_files, cpu_count, MAX_WORKERS, THREADS_PER_JOB,
                    n_tasks, yielded, generated_files >>
    /\ UNCHANGED nonrendervars

\* the for loop over render_tasks is exhausted
LoopDone ==
    /\ rpc = "loop"
    /\ task_idx = n_tasks
    /\ rpc' = "drain"
    /\ UNCHANGED << matcher_calls, part_files, cpu_count, MAX_WORKERS,
                    THREADS_PER_JOB, n_tasks,
                    task_idx, futures, job, yielded, chunk, batch_metadata,
                    run_exc, generated_files >>
    /\ UNCHANGED nonrendervars

\* lines 366-367: as_completed yields a finished future, result() raises
\* when its job failed
Drain ==
    /\ rpc = "drain"
    /\ \E k \in 1..Len(futures) :
          LET f == futures[k]
          IN  /\ f \notin yielded
              /\ Finished(f)
              /\ IF job[f] = "failed"
                 THEN /\ run_exc' = "EncodeError"
                      /\ rpc' = "exit"
                      /\ UNCHANGED yielded
                 ELSE /\ yielded' = yielded \cup {f}
                      /\ UNCHANGED << run_exc, rpc >>
    /\ UNCHANGED << matcher_calls, part_files, cpu_count, MAX_WORKERS,
                    THREADS_PER_JOB, n_tasks,
                    task_idx, futures, job, chunk, batch_metadata,
                    generated_files >>
    /\ UNCHANGED nonrendervars

\* as_completed has yielded every future of the list
DrainDone ==
    /\ rpc = "drain"
    /\ \A k \in 1..Len(futures) : futures[k] \in yielded
    /\ rpc' = "exit"
    /\ UNCHANGED << matcher_calls, part_files, cpu_count, MAX_WORKERS,
                    THREADS_PER_JOB, n_tasks,
                    task_idx, futures, job, yielded, chunk, batch_metadata,
                    run_exc, generated_files >>
    /\ UNCHANGED nonrendervars

\* the end of "with ThreadPoolExecutor(...) as executor": shutdown(wait=True)
\* returns when every submitted job has run; a pending exception then
\* leaves run()
ExitPool ==
    /\ rpc = "exit"
    /\ \A k \in DOMAIN job : job[k] \in {"none", "ok", "failed"}
    /\ rpc' = IF run_exc # "" THEN "raised" ELSE "collect"
    /\ UNCHANGED << matcher_calls, part_files, cpu_count, MAX_WORKERS,
                    THREADS_PER_JOB, n_tasks,
                    task_idx, futures, job, yielded, chunk, batch_metadata,
                    run_exc, generated_files >>
    /\ UNCHANGED nonrendervars

Running == { k \in DOMAIN job : job[k] = "running" }
Queued == { k \in DOMAIN job : job[k] = "queued" }

\* mutant: the worker asks the Matcher for its clip when it starts
WorkerMatcherCalls_Lazy(k) == << [chunk |-> k, thread |-> "worker"] >>

\* lines 195-230: render_chunk_worker writes and closes the clip it was
\* given and makes no call of the Matcher
WorkerMatcherCalls(k) == << >>

\* a worker thread of the pool takes the oldest queued job
JobStart ==
    /\ rpc \in {"loop", "drain", "exit"}
    /\ Queued # {}
    /\ Cardinality(Running) < MAX_WORKERS
    /\ LET k == CHOOSE q \in Queued : \A r \in Queued : q <= r
       IN  /\ job' = [job EXCEPT ![k] = "running"]
           /\ matcher_calls' = matcher_calls \o WorkerMatcherCalls(k)
    /\ UNCHANGED << part_files, cpu_count, MAX_WORKERS,
                    THREADS_PER_JOB, n_tasks,
                    task_idx, futures, yielded, chunk, batch_metadata,
                    run_exc, generated_files, rpc >>
    /\ UNCHANGED nonrendervars

\* render_chunk_worker returns the part, or write_videofile raises
JobFinish ==
    /\ \E k \in Running, outcome \in {"ok", "failed"} :
          job' = [job EXCEPT ![k] = outcome]
    /\ UNCHANGED << matcher_calls, part_files, cpu_count, MAX_WORKERS,
                    THREADS_PER_JOB, n_tasks,
                    task_idx, futures, yielded, chunk, batch_metadata,
                    run_exc, generated_files, rpc >>
    /\ UNCHANGED nonrendervars

\* mutant: the list is built from the futures still held
PartFiles_FromFutures(n) == futures

\* lines 376-392: "for idx in range(len(render_tasks))", one entry a chunk
PartFiles(n) == [k \in 1..n |-> k - 1]

\* lines 372-400: the part list is rebuilt, an empty one skips the batch
Collect ==
    /\ rpc = "collect"
    /\ part_files' = PartFiles(n_tasks)
    /\ rpc' = IF part_files' = << >> THEN "skipped" ELSE "assemble"
    /\ UNCHANGED << matcher_calls, cpu_count, MAX_WORKERS, THREADS_PER_JOB,
                    n_tasks, task_idx, futures, job, yielded, chunk,
                    batch_metadata, run_exc, generated_files >>
    /\ UNCHANGED nonrendervars

RenderNext ==
    \/ DeriveWorkers
    \/ Backpressure
    \/ SubmitChunk
    \/ LoopDone
    \/ Drain
    \/ DrainDone
    \/ ExitPool
    \/ JobStart
    \/ JobFinish
    \/ Collect

RenderSpec == RenderInit /\ [][RenderNext]_vars

\* the steps of the thread that runs the loop of run()
ControllerStep ==
    \/ DeriveWorkers
    \/ Backpressure
    \/ SubmitChunk
    \/ LoopDone
    \/ Drain
    \/ DrainDone
    \/ ExitPool
    \/ Collect

\* the rendering loop with its scheduling: the thread of run() goes on
\* while it has a step to take, a free worker of the pool takes a queued
\* job, and a running job comes to its end
RenderLiveSpec ==
    /\ RenderInit
    /\ [][RenderNext]_vars
    /\ WF_vars(ControllerStep)
    /\ WF_vars(JobStart)
    /\ WF_vars(JobFinish)

\* ============================================== assembly of the batch
\* the batches whose assembly is followed, and the batch counts configured
BatchIndexes == {0, 1}
BatchCounts == {1, 2, 3}

\* the numbers of chunks of the batches assembled
PartCounts == {0, 1, 3}

\* audio durations and, for each, the durations of the assembled parts
AudioDurations == { Secs(8) }
VisualDurations(a) ==
    { FSub(a, Secs(2)), FSub(a, One \div 2), a,
      FAdd(a, One \div 2), FAdd(a, One), FAdd(a, Secs(2)) }

\* "SHIFT_SECONDS = -0.5", in milliseconds
SHIFT_SECONDS == 0 - 500

\* "subs_obj.shift(seconds=SHIFT_SECONDS)" on a track of the given offset
Shifted(offset) == offset + SHIFT_SECONDS

\* "batch_{i+1}.mp4", named by its number
OutputFile(i) == i + 1

\* the chunk a loop iteration prepares from a usable folder
SourceChunk ==
    [mode |-> "ordered", videos |-> "usable", fetched |-> "clip, segments",
     clip |-> "source", duration |-> "needed_duration",
     size |-> "resize_and_crop"]

\* the rendering loop of batch i has completed: every job has returned its
\* part, the outputs of the batches before are recorded, and the shifted
\* subtitle file exists when an earlier batch has made it
AssembleInit ==
    /\ PlanOff
    /\ SliceOff
    /\ ResizeOff
    /\ FetchOff
    /\ SceneOff
    /\ PrepOff
    /\ \E i \in BatchIndexes :
          /\ \E shifted \in IF i = 0 THEN {Absent} ELSE {Absent, Shifted(0)} :
                AsmStart(i, shifted)
          /\ generated_files = [k \in 1..i |-> OutputFile(k - 1)]
    /\ cpu_count \in RenderCpuCounts
    /\ MAX_WORKERS = MaxWorkers(CpuCores(cpu_count))
    /\ THREADS_PER_JOB = ThreadsPerJob(CpuCores(cpu_count))
    /\ n_tasks \in PartCounts
    /\ task_idx = n_tasks
    /\ futures = [k \in 1..n_tasks |-> k - 1]
    /\ job = [k \in 0..(n_tasks - 1) |-> "ok"]
    /\ yielded = 0..(n_tasks - 1)
    /\ chunk = IF n_tasks = 0 THEN NoChunk ELSE SourceChunk
    /\ batch_metadata = [k \in 1..n_tasks |-> k - 1]
    /\ run_exc = ""
    /\ matcher_calls =
          [k \in 1..n_tasks |-> [chunk |-> k - 1, thread |-> "main"]]
    /\ part_files = << >>
    /\ rpc = "collect"

\* mutant: the shift is applied to the file found
ShiftedContent_Again(existing) ==
    IF existing = Absent THEN Shifted(0) ELSE Shifted(existing)

\* lines 430-434: the shifted file is written from the source track when it
\* does not exist, and left as it is when it does
ShiftedContent(existing) ==
    IF existing = Absent THEN Shifted(0) ELSE existing

\* lines 404-468: the path is chosen and the subtitle track is prepared; an
\* error while shifting leaves the source track as the one to burn
PrepareSubtitles ==
    /\ rpc = "assemble"
    /\ \E t \in TransitionTypes, saved \in BOOLEAN :
          /\ config_transition' = t
          /\ use_fast_path' = (t # "Crossfade")
          /\ IF shifted_srt = Absent /\ ~saved
             THEN /\ final_srt' = 0
                  /\ UNCHANGED shifted_srt
             ELSE /\ shifted_srt' = ShiftedContent(shifted_srt)
                  /\ final_srt' = shifted_srt'
    /\ rpc' = "paths"
    /\ UNCHANGED << batch_i, batch_count, paths, fast_error, audio_duration,
                    visual_duration, output_duration, burned, metadata_file,
                    returned >>
    /\ UNCHANGED << matcher_calls, part_files, cpu_count, MAX_WORKERS,
                    THREADS_PER_JOB, n_tasks, task_idx, futures, job,
                    yielded, chunk, batch_metadata, run_exc,
                    generated_files >>
    /\ UNCHANGED nonbatchvars

\* mutant: the encoder writes the whole visual track
Shortest_Visual(v, a) == v

\* line 533: "-shortest", the output ends with the shorter input
Shortest(v, a) == FMin(v, a)

\* lines 630-636: the visual track against final_duration
Reconciled(v, a) ==
    IF v > FAdd(a, One) THEN a
    ELSE IF v < a THEN a
    ELSE v

\* lines 488-553: the errors raised inside "try: ... except Exception"
FastPathCatches(error) == error \in {"audio_error", "encoder_error"}

\* lines 470-553: the concat list, the audio mix and the encoder run
FastPath ==
    /\ rpc = "paths"
    /\ use_fast_path
    /\ paths' = Append(paths, "fast")
    /\ \E outcome \in {"list_error", "audio_error", "encoder_error", "ok"},
          a \in AudioDurations :
       \E v \in VisualDurations(a) :
          IF outcome = "ok"
          THEN /\ audio_duration' = a
               /\ visual_duration' = v
               /\ output_duration' = Shortest(v, a)
               /\ burned' = final_srt
               /\ generated_files' =
                     Append(generated_files, OutputFile(batch_i))
               /\ rpc' = "metadata"
               /\ UNCHANGED << use_fast_path, fast_error, run_exc >>
          ELSE /\ fast_error' = outcome
               /\ IF FastPathCatches(outcome)
                  THEN /\ use_fast_path' = FALSE
                       /\ UNCHANGED << run_exc, rpc >>
                  ELSE /\ run_exc' = "OSError"
                       /\ rpc' = "raised"
                       /\ UNCHANGED use_fast_path
               /\ UNCHANGED << audio_duration, visual_duration,
                               output_duration, burned, generated_files >>
    /\ UNCHANGED << batch_i, batch_count, config_transition, shifted_srt,
                    final_srt, metadata_file, returned >>
    /\ UNCHANGED << matcher_calls, part_files, cpu_count, MAX_WORKERS,
                    THREADS_PER_JOB, n_tasks, task_idx, futures, job,
                    yielded, chunk, batch_metadata >>
    /\ UNCHANGED nonbatchvars

\* lines 555-681: the parts are loaded, joined, reconciled with the audio
\* and written; "try: ... finally: pass" lets every error leave run()
CompositePath ==
    /\ rpc = "paths"
    /\ ~use_fast_path
    /\ paths' = Append(paths, "composite")
    /\ \E ok \in BOOLEAN, a \in AudioDurations :
       \E v \in VisualDurations(a) :
          IF ok
          THEN /\ audio_duration' = a
               /\ visual_duration' = v
               /\ output_duration' = Reconciled(v, a)
               /\ burned' = final_srt
               /\ generated_files' =
                     Append(generated_files, OutputFile(batch_i))
               /\ rpc' = "metadata"
               /\ UNCHANGED run_exc
          ELSE /\ run_exc' = "CompositeError"
               /\ rpc' = "raised"
               /\ UNCHANGED << audio_duration, visual_duration,
                               output_duration, burned, generated_files >>
    /\ UNCHANGED << batch_i, batch_count, config_transition, use_fast_path,
                    shifted_srt, final_srt, fast_error, metadata_file,
                    returned >>
    /\ UNCHANGED << matcher_calls, part_files, cpu_count, MAX_WORKERS,
                    THREADS_PER_JOB, n_tasks, task_idx, futures, job,
                    yielded, chunk, batch_metadata >>
    /\ UNCHANGED nonbatchvars

\* lines 683-706: the sidecar is written; "except Exception" logs an error
SaveMetadata ==
    /\ rpc = "metadata"
    /\ \E written \in BOOLEAN :
          metadata_file' = IF written THEN "written" ELSE "failed"
    /\ rpc' = "saved"
    /\ UNCHANGED << batch_i, batch_count, config_transition, use_fast_path,
                    shifted_srt, final_srt, paths, fast_error,
                    audio_duration, visual_duration, output_duration,
                    burned, returned >>
    /\ UNCHANGED << matcher_calls, part_files, cpu_count, MAX_WORKERS,
                    THREADS_PER_JOB, n_tasks, task_idx, futures, job,
                    yielded, chunk, batch_metadata, run_exc,
                    generated_files >>
    /\ UNCHANGED nonbatchvars

\* lines 91-94 and 711: the batch loop goes on with the next batch, whose
\* first statement is "self.matcher.reset_usage()", or run() returns
EndOfBatch ==
    /\ rpc \in {"skipped", "saved"}
    /\ \E count \in { c \in BatchCounts : c > batch_i } :
          /\ batch_count' = count
          /\ IF batch_i + 1 < count
             THEN /\ "reset_usage" \notin MatcherAttributes
                  /\ batch_i' = batch_i + 1
                  /\ run_exc' = "AttributeError"
                  /\ rpc' = "raised"
                  /\ UNCHANGED returned
             ELSE /\ returned' = [done |-> TRUE, files |-> generated_files]
                  /\ rpc' = "returned"
                  /\ UNCHANGED << batch_i, run_exc >>
    /\ UNCHANGED << config_transition, use_fast_path, shifted_srt,
                    final_srt, paths, fast_error, audio_duration,
                    visual_duration, output_duration, burned,
                    metadata_file >>
    /\ UNCHANGED << matcher_calls, part_files, cpu_count, MAX_WORKERS,
                    THREADS_PER_JOB, n_tasks, task_idx, futures, job,
                    yielded, chunk, batch_metadata, generated_files >>
    /\ UNCHANGED nonbatchvars

AssembleNext ==
    \/ Collect
    \/ PrepareSubtitles
    \/ FastPath
    \/ CompositePath
    \/ SaveMetadata
    \/ EndOfBatch

AssembleSpec == AssembleInit /\ [][AssembleNext]_vars

\* ===================================================== resize_and_crop
MaxSide == 14              \* widths and heights range over 2..MaxSide

ResizeInit ==
    /\ PlanOff
    /\ SliceOff
    /\ RenderOff
    /\ AsmOff
    /\ FetchOff
    /\ SceneOff
    /\ PrepOff
    /\ clip_size \in (2..MaxSide) \X (2..MaxSide)
    /\ target_size \in (2..MaxSide) \X (2..MaxSide)
    /\ out_size = << 0, 0 >>
    /\ same_clip = FALSE
    /\ zpc = "call"

\* int(x) of a float x >= 0
Trunc(x) == x \div One

\* "scale_factor = max(target_w / w, target_h / h)"
ScaleFactor(w, h, target_w, target_h) ==
    FMax(FDivInt(target_w, w), FDivInt(target_h, h))

\* clip.resize(scale_factor): the new size is [scale * w, scale * h], each
\* truncated to an int by the resizer
Resized(scale, w, h) ==
    << Trunc(FMul(scale, Secs(w))), Trunc(FMul(scale, Secs(h))) >>

\* int(x) for x given in half units: truncation towards zero
TruncHalves(x2) == IF x2 >= 0 THEN x2 \div 2 ELSE 0 - ((0 - x2) \div 2)

\* a slice bound of a Python sequence of length n: negative bounds count
\* from the end, and the bound is kept inside 0..n
SliceBound(b, n) ==
    LET c == IF b < 0 THEN b + n ELSE b
    IN  IF c < 0 THEN 0 ELSE IF c > n THEN n ELSE c

\* clip.crop(width=target, x_center=n / 2): the frame is cut to
\* pic[int(x_center - target / 2) : int(x_center + target / 2)]; a centre
\* of 0 is "no centre" and leaves the side whole
CropLen(n, target) ==
    IF n = 0 THEN 0
    ELSE LET x1 == SliceBound(TruncHalves(n - target), n)
             x2 == SliceBound(TruncHalves(n + target), n)
         IN  IF x2 >= x1 THEN x2 - x1 ELSE 0

\* Matcher.resize_and_crop
ResizeAndCrop ==
    /\ zpc = "call"
    /\ LET w == clip_size[1]
           h == clip_size[2]
           target_w == target_size[1]
           target_h == target_size[2]
           scaled == Resized(ScaleFactor(w, h, target_w, target_h), w, h)
       IN  IF w = target_w /\ h = target_h
           THEN /\ out_size' = clip_size
                /\ same_clip' = TRUE
           ELSE /\ out_size' = << CropLen(scaled[1], target_w),
                                  CropLen(scaled[2], target_h) >>
                /\ same_clip' = FALSE
    /\ zpc' = "returned"
    /\ UNCHANGED << clip_size, target_size >>
    /\ UNCHANGED nonresizevars

ResizeSpec == ResizeInit /\ [][ResizeAndCrop]_vars

\* ===================================================== fetch of a chunk
\* a task as the loop holds it once the pads are injected: durations of
\* 15 s and 4.375 s, pads of 0 and 0.5 s, speeds from 0.5 to 2, bounds of
\* the cuts around 0.1 s and above
FetchInit ==
    /\ PlanOff
    /\ SliceOff
    /\ RenderOff
    /\ ResizeOff
    /\ AsmOff
    /\ SceneOff
    /\ PrepOff
    /\ fetch_task \in [folder : {"", "folder"},
                       duration : { Secs(15), Secs(4) + (3 * One) \div 8 },
                       pad_head : { 0, One \div 2 },
                       pad_tail : { 0, One \div 2 },
                       speed : { One \div 2, One, One + One \div 4,
                                 Secs(2) },
                       clip_min_duration : { 0, Tenth, Tenth + 1, Secs(2),
                                             Secs(4) },
                       clip_max_duration : { 0, Secs(2), Secs(4) }]
    /\ fetch_call = NoCall
    /\ fpc = "task"

\* "needed_duration = duration + pad_head + pad_tail"
NeededDuration(duration, pad_head, pad_tail) ==
    FAdd(FAdd(duration, pad_head), pad_tail)

\* "fetch_duration_source = needed_duration * speed_factor"
FetchDurationSource(needed_duration, speed_factor) ==
    FMul(needed_duration, speed_factor)

\* mutant: a minimum of 0.1 is enough for random cuts
RandomCuts_FromTenth(clip_min, clip_max) ==
    clip_min >= Tenth /\ clip_max > clip_min

\* "if clip_min > 0.1 and clip_max > clip_min"
RandomCuts(clip_min, clip_max) == clip_min > Tenth /\ clip_max > clip_min

\* lines 258-321: the durations of the chunk and the call of the Matcher
FetchClip ==
    /\ fpc = "task"
    /\ LET speed_factor == fetch_task.speed
           needed_duration == NeededDuration(fetch_task.duration,
                                             fetch_task.pad_head,
                                             fetch_task.pad_tail)
           fetch_duration_source ==
               FetchDurationSource(needed_duration, speed_factor)
           clip_min == fetch_task.clip_min_duration
           clip_max == fetch_task.clip_max_duration
       IN  fetch_call' =
             IF fetch_task.folder = ""
             THEN NoCall
             ELSE IF RandomCuts(clip_min, clip_max)
             THEN [method |-> "get_random_cut_clip",
                   folder |-> fetch_task.folder,
                   duration |-> fetch_duration_source,
                   min_dur |-> FMul(clip_min, speed_factor),
                   max_dur |-> FMul(clip_max, speed_factor)]
             ELSE [method |-> "get_ordered_clip",
                   folder |-> fetch_task.folder,
                   duration |-> fetch_duration_source,
                   min_dur |-> 0,
                   max_dur |-> 0]
    /\ fpc' = "fetched"
    /\ UNCHANGED fetch_task
    /\ UNCHANGED nonfetchvars

FetchSpec == FetchInit /\ [][FetchClip]_vars

\* ================================================ scenes of the composite
\* lines 376-392 and 563-571: the parts as the composite path loads them,
\* each as long as the clip the chunk was given ("set_duration(
\* needed_duration)")
LoadedParts(tasks) ==
    [k \in 1..Len(tasks) |->
        [chunk_index |-> k - 1,
         block_index |-> tasks[k].block_index,
         duration |-> NeededDuration(tasks[k].duration, tasks[k].pad_head,
                                     tasks[k].pad_tail)]]

\* mutant: every part opens a scene
SceneChanges_Always(block_index, current_blk_idx) == TRUE

\* "if item["block_index"] != current_blk_idx"
SceneChanges(block_index, current_blk_idx) == block_index # current_blk_idx

\* lines 574-597: the loop over loaded_parts and "Append last group"
RECURSIVE FoldParts(_, _, _, _)
FoldParts(parts, blocks, current_group, current_blk_idx) ==
    IF parts = << >>
    THEN IF current_group # << >> THEN Append(blocks, current_group)
         ELSE blocks
    ELSE LET item == Head(parts)
             changes == SceneChanges(item.block_index, current_blk_idx)
         IN  FoldParts(Tail(parts),
                       IF changes /\ current_group # << >>
                       THEN Append(blocks, current_group) ELSE blocks,
                       Append(IF changes THEN << >> ELSE current_group,
                              item.chunk_index),
                       IF changes THEN item.block_index
                       ELSE current_blk_idx)

\* "logical_blocks = []; current_group = []; current_blk_idx = -1"
LogicalBlocks(parts) == FoldParts(parts, << >>, << >>, 0 - 1)

\* the composite path has loaded the parts and groups them into scenes
GroupScenes ==
    /\ pc = "done"
    /\ render_tasks # << >>
    /\ logical_blocks' = LogicalBlocks(LoadedParts(render_tasks))
    /\ pc' = "grouped"
    /\ UNCHANGED << folder_weights, total_duration, transition_type,
                    transition_duration, timeline_blocks, current_t,
                    render_tasks, idx_b, curr, idx, final_video_visual >>
    /\ UNCHANGED << slicevars, rendervars, resizevars, asmvars, fetchvars,
                    prepvars >>

\* the float sum of a sequence, left to right (numpy.cumsum)
RECURSIVE CumSum(_)
CumSum(ds) ==
    IF ds = << >> THEN 0
    ELSE FAdd(CumSum(SubSeq(ds, 1, Len(ds) - 1)), ds[Len(ds)])

\* concatenate_videoclips(current_group, method="compose"): the duration
\* of a scene
SceneDuration(scene, parts) ==
    CumSum([k \in 1..Len(scene) |-> parts[scene[k] + 1].duration])

\* the paddings concatenate_videoclips counts for n clips: one a junction
\* as documented, or one a clip as moviepy 1.0 computes its duration
\* ("tt + padding * arange(len(tt))", "duration = tt[-1]")
PaddingsCounted(n) == { n - 1, n }

\* "np.maximum(0, tt + padding * np.arange(len(tt)))[-1]"
ConcatDuration(total, padding, count) ==
    LET shortened == FSubS(total, RoundSig(count * padding, 1))
    IN  IF shortened < 0 THEN 0 ELSE shortened

\* lines 601-621: the scenes are joined, with an overlap between them
\* under "Crossfade"
ConcatScenes ==
    /\ pc = "grouped"
    /\ LET parts == LoadedParts(render_tasks)
           n == Len(logical_blocks)
           total == CumSum([s \in 1..n |->
                              SceneDuration(logical_blocks[s], parts)])
       IN  IF transition_type = "Crossfade" /\ n > 1
           THEN \E count \in PaddingsCounted(n) :
                   final_video_visual' =
                       ConcatDuration(total, transition_duration, count)
           ELSE final_video_visual' = total
    /\ pc' = "composed"
    /\ UNCHANGED << folder_weights, total_duration, transition_type,
                    transition_duration, timeline_blocks, current_t,
                    render_tasks, idx_b, curr, idx, logical_blocks >>
    /\ UNCHANGED << slicevars, rendervars, resizevars, asmvars, fetchvars,
                    prepvars >>

\* the planner, the chunker and the pads, followed by the scenes of the
\* composite path
ComposeSpec == PlanInit /\ [][PlanNext \/ GroupScenes \/ ConcatScenes]_vars

\* ============================================= preprocessing of a video
NoInfo == << 0, 0 >>      \* get_video_info returns None

\* the task is given a video; a file of an earlier, interrupted run may lie
\* at temp_path
PrepInit ==
    /\ PlanOff
    /\ SliceOff
    /\ RenderOff
    /\ ResizeOff
    /\ AsmOff
    /\ FetchOff
    /\ SceneOff
    /\ v_file = "source"
    /\ temp_file \in {"absent", "stale"}
    /\ video_size \in { << 1920, 1080 >>, << 1080, 1920 >>, << 720, 720 >> }
    /\ target_res \in { << 1080, 1920 >>, << 1920, 1080 >> }
    /\ info = NoInfo
    /\ vf_filter = ""
    /\ ffmpeg_exit = ""
    /\ task_result = NoTaskResult
    /\ qpc = "probe"

\* lines 56-71: letterbox for a landscape video, crop for the others
VfFilter(w, h) ==
    IF w > h THEN "scale decrease, pad" ELSE "scale increase, crop"

\* lines 41-71: the dimensions are read and the command is built
GetVideoInfo ==
    /\ qpc = "probe"
    /\ \E read \in BOOLEAN :
          IF ~read
          THEN /\ info' = NoInfo
               /\ task_result' = [success |-> FALSE,
                                  message |-> "Could not read metadata"]
               /\ qpc' = "returned"
               /\ UNCHANGED vf_filter
          ELSE /\ info' = video_size
               /\ IF video_size = target_res
                  THEN /\ task_result' = [success |-> TRUE,
                                          message |-> "None"]
                       /\ qpc' = "returned"
                       /\ UNCHANGED vf_filter
                  ELSE /\ vf_filter' = VfFilter(video_size[1], video_size[2])
                       /\ qpc' = "encode"
                       /\ UNCHANGED task_result
    /\ UNCHANGED << v_file, temp_file, video_size, target_res, ffmpeg_exit >>
    /\ UNCHANGED << planvars, slicevars, rendervars, resizevars, asmvars,
                    fetchvars, scenevars >>

\* line 88: subprocess.run(cmd, check=True): the encoder writes temp_path,
\* ends with an error having written part of it or nothing, or cannot be
\* started
RunFfmpeg ==
    /\ qpc = "encode"
    /\ \E exit \in {"ok", "CalledProcessError", "FileNotFoundError"} :
          /\ ffmpeg_exit' = exit
          /\ IF exit = "ok"
             THEN /\ temp_file' = "encoded"
                  /\ qpc' = "replace"
             ELSE IF exit = "CalledProcessError"
             THEN /\ temp_file' \in {temp_file, "partial"}
                  /\ qpc' = "failed"
             ELSE /\ UNCHANGED temp_file
                  /\ qpc' = "failed"
    /\ UNCHANGED << v_file, video_size, target_res, info, vf_filter,
                    task_result >>
    /\ UNCHANGED << planvars, slicevars, rendervars, resizevars, asmvars,
                    fetchvars, scenevars >>

\* lines 91-92: "if os.path.exists(v_path): os.remove(v_path)"; os.remove
\* may raise
RemoveOriginal ==
    /\ qpc = "replace"
    /\ \E removed \in BOOLEAN :
          IF removed
          THEN /\ v_file' = "absent"
               /\ qpc' = "rename"
          ELSE /\ qpc' = "failed"
               /\ UNCHANGED v_file
    /\ UNCHANGED << temp_file, video_size, target_res, info, vf_filter,
                    ffmpeg_exit, task_result >>
    /\ UNCHANGED << planvars, slicevars, rendervars, resizevars, asmvars,
                    fetchvars, scenevars >>

\* lines 93-95: "os.rename(temp_path, v_path)"; os.rename may raise
RenameTemp ==
    /\ qpc = "rename"
    /\ \E renamed \in BOOLEAN :
          IF renamed
          THEN /\ v_file' = temp_file
               /\ temp_file' = "absent"
               /\ task_result' = [success |-> TRUE, message |-> "v_path"]
               /\ qpc' = "returned"
          ELSE /\ qpc' = "failed"
               /\ UNCHANGED << v_file, temp_file, task_result >>
    /\ UNCHANGED << video_size, target_res, info, vf_filter, ffmpeg_exit >>
    /\ UNCHANGED << planvars, slicevars, rendervars, resizevars, asmvars,
                    fetchvars, scenevars >>

\* lines 97-108: both handlers remove the file at temp_path when there is
\* one, pass when that fails, and return failure
HandleError ==
    /\ qpc = "failed"
    /\ IF temp_file = "absent"
       THEN UNCHANGED temp_file
       ELSE \E removed \in BOOLEAN :
               temp_file' = IF removed THEN "absent" ELSE temp_file
    /\ task_result' =
          [success |-> FALSE,
           message |-> IF ffmpeg_exit = "CalledProcessError"
                       THEN "FFmpeg failed" ELSE "str(e)"]
    /\ qpc' = "returned"
    /\ UNCHANGED << v_file, video_size, target_res, info, vf_filter,
                    ffmpeg_exit >>
    /\ UNCHANGED << planvars, slicevars, rendervars, resizevars, asmvars,
                    fetchvars, scenevars >>

PrepNext ==
    \/ GetVideoInfo
    \/ RunFfmpeg
    \/ RemoveOriginal
    \/ RenameTemp
    \/ HandleError

PrepSpec == PrepInit /\ [][PrepNext]_vars

\* ================================================================ claims
\* positions (1-based) of the render tasks of block i (0-based)
ChunksOf(i) ==
    { k \in 1..Len(render_tasks) : render_tasks[k].block_index = i }

SetMin(S) == CHOOSE x \in S : \A y \in S : x <= y
SetMax(S) == CHOOSE x \in S : \A y \in S : x >= y

Planned == pc \in {"chunk", "render", "done"}
Chunked == pc \in {"render", "done"}
NBlocks == Len(timeline_blocks)
AllPositive == \A i \in 1..Len(folder_weights) : folder_weights[i] > 0

\* exact (unrounded) sum of the block spans
SpanSum == SumSeq([i \in 1..NBlocks |->
                     timeline_blocks[i].end - timeline_blocks[i].start])

BlocksContiguous ==
    /\ timeline_blocks[1].start = 0
    /\ \A i \in 1..NBlocks : timeline_blocks[i].end >= timeline_blocks[i].start
    /\ \A i \in 1..(NBlocks - 1) :
          timeline_blocks[i].end = timeline_blocks[i + 1].start

\* C1 as stated: with positive weights the blocks have non-negative spans,
\* are contiguous from 0, their spans sum to D and the last block ends
\* exactly at D.
C1_BlocksEndExactlyAtD ==
    (Planned /\ NBlocks > 0 /\ AllPositive) =>
        /\ BlocksContiguous
        /\ SpanSum = total_duration
        /\ timeline_blocks[NBlocks].end = total_duration

\* C1 amended: with positive weights the blocks have non-negative spans and
\* are contiguous from 0; the last block ends at D or later, later only by
\* the rounding drift of the accumulation (at most one unit in the last
\* place of D per folder, plus one), and the spans sum to that end.
C1_BlocksCoverD ==
    (Planned /\ NBlocks > 0 /\ AllPositive) =>
        /\ BlocksContiguous
        /\ SpanSum = timeline_blocks[NBlocks].end
        /\ timeline_blocks[NBlocks].end >= total_duration
        /\ timeline_blocks[NBlocks].end - total_duration
              <= (NBlocks + 1) * Ulp(total_duration)

\* three positive weights whose shares are all rounded: 1/5, 2/5, 2/5
C1_Witness ==
    /\ pc = "done"
    /\ folder_weights = << 1, 2, 2 >>
    /\ total_duration = Secs(12)
    /\ timeline_blocks[3].end > total_duration

\* the render tasks of every block partition it: in block order, none for
\* an empty block, first at the block start, each starting where the
\* previous one ended, last at the block end
ChunksPartitionBlocks ==
    /\ \A k \in 1..(Len(render_tasks) - 1) :
          render_tasks[k].block_index <= render_tasks[k + 1].block_index
    /\ \A i \in 0..(NBlocks - 1) :
          LET b == timeline_blocks[i + 1]
              S == ChunksOf(i)
          IN  IF b.start < b.end
              THEN /\ S # {}
                   /\ render_tasks[SetMin(S)].start = b.start
                   /\ render_tasks[SetMax(S)].end = b.end
                   /\ \A k \in S : (k + 1) \in S =>
                         render_tasks[k + 1].start = render_tasks[k].end
              ELSE S = {}

IsLastOfBlock(k) == k = SetMax(ChunksOf(render_tasks[k].block_index))
IsFirstOfBlock(k) == k = SetMin(ChunksOf(render_tasks[k].block_index))

TaskDurations == [k \in 1..Len(render_tasks) |-> render_tasks[k].duration]

\* scenario A: 50/50 over 100 s
ScenarioA ==
    (folder_weights = << 1, 1 >> /\ total_duration = Secs(100)) =>
        /\ timeline_blocks[1].start = 0
        /\ timeline_blocks[1].end = Secs(50)
        /\ timeline_blocks[2].start = Secs(50)
        /\ timeline_blocks[2].end = Secs(100)
        /\ TaskDurations = << Secs(15), Secs(15), Secs(15), Secs(5),
                              Secs(15), Secs(15), Secs(15), Secs(5) >>

\* C2 as stated: the chunks partition every block exactly, every chunk has
\* 0 < duration <= 15 s and every chunk but the last of its block lasts
\* exactly 15 s; scenario A yields 15, 15, 15, 5 twice.
C2_ChunksExactly15 ==
    Chunked =>
        /\ ChunksPartitionBlocks
        /\ \A k \in 1..Len(render_tasks) :
              /\ render_tasks[k].duration > 0
              /\ render_tasks[k].duration <= MAX_CHUNK_DURATION
              /\ ~IsLastOfBlock(k) =>
                    render_tasks[k].duration = MAX_CHUNK_DURATION
        /\ ScenarioA

AbsDiff(x, y) == IF x >= y THEN x - y ELSE y - x

\* C2 amended: the chunks partition every block exactly, every chunk ends at
\* min(start + 15, block end) as computed in floating point, so its duration
\* is positive, at most 15 s plus one unit in the last place of its end, and
\* for every chunk but the last of its block within one such unit of 15 s;
\* scenario A yields 15, 15, 15, 5 twice.
C2_ChunksPartition ==
    Chunked =>
        /\ ChunksPartitionBlocks
        /\ \A k \in 1..Len(render_tasks) :
              /\ render_tasks[k].duration > 0
              /\ render_tasks[k].duration
                    <= MAX_CHUNK_DURATION + Ulp(render_tasks[k].end)
              /\ ~IsLastOfBlock(k) =>
                    AbsDiff(render_tasks[k].duration, MAX_CHUNK_DURATION)
                       <= Ulp(render_tasks[k].end)
        /\ ScenarioA

C2_Witness ==
    /\ pc = "done"
    /\ folder_weights = << 1, 1 >>
    /\ total_duration = Secs(100)
    /\ Len(render_tasks) = 8

\* C3: under Crossfade with duration t, for adjacent blocks i, i+1 the last
\* chunk of block i has pad_tail = t and the first chunk of block i+1 has
\* pad_head = t.
C3_CrossfadePads ==
    (pc = "done" /\ transition_type = "Crossfade") =>
        \A i \in 0..(NBlocks - 2) :
            /\ ChunksOf(i) # {} =>
                  render_tasks[SetMax(ChunksOf(i))].pad_tail
                     = transition_duration
            /\ ChunksOf(i + 1) # {} =>
                  render_tasks[SetMin(ChunksOf(i + 1))].pad_head
                     = transition_duration

\* a crossfade over three non-empty blocks, each of several chunks
C3_Witness ==
    /\ pc = "done"
    /\ transition_type = "Crossfade"
    /\ NBlocks = 3
    /\ \A i \in 0..2 : Cardinality(ChunksOf(i)) >= 2
    /\ render_tasks[SetMax(ChunksOf(1))].pad_tail = One \div 2

\* C4: pad_head is nonzero only on the first chunk of a block
\* (is_block_start), pad_tail only on the last chunk of a block
\* (is_block_end), and without Crossfade every pad is 0.
C4_PadsOnlyAtBoundaries ==
    \A k \in 1..Len(render_tasks) :
        (pc \in {"render", "done"} /\ k <= idx) =>
            /\ render_tasks[k].pad_head # 0 =>
                  (render_tasks[k].is_block_start /\ IsFirstOfBlock(k))
            /\ render_tasks[k].pad_tail # 0 =>
                  (render_tasks[k].is_block_end /\ IsLastOfBlock(k))
            /\ transition_type # "Crossfade" =>
                  (render_tasks[k].pad_head = 0 /\ render_tasks[k].pad_tail = 0)

\* a fade to black over two non-empty blocks: boundary chunks without pads
C4_Witness ==
    /\ pc = "done"
    /\ transition_type = "Fade to Black"
    /\ NBlocks = 2
    /\ Cardinality(ChunksOf(0)) >= 2
    /\ Cardinality(ChunksOf(1)) >= 2
    /\ render_tasks[SetMin(ChunksOf(1))].pad_head = 0

\* C5 as stated: when some folder has a positive weight, a folder of weight 0
\* has a block of span 0 and no render task references it, at any position.
C5_ZeroWeightUnused ==
    (Chunked /\ total_weight > 0) =>
        \A i \in 1..NBlocks :
            folder_weights[i] = 0 =>
                /\ timeline_blocks[i].start = timeline_blocks[i].end
                /\ \A k \in 1..Len(render_tasks) :
                      render_tasks[k].folder # i

\* ------------------------------------------------ claims on the Matcher
NFiles == Len(listing)
Playable(f) == file_len[f] # Unreadable /\ file_len[f] > 0
HasPlayable == \E f \in 1..NFiles : Playable(f)

\* the file after f in sorted-name order, circularly
NameSucc(f) == (f % NFiles) + 1

RECURSIVE NextPlayable(_)
\* the first playable file from f on in sorted-name order, circularly
NextPlayable(f) == IF Playable(f) THEN f ELSE NextPlayable(NameSucc(f))

\* exact (unrounded) sum of the durations of segments
SegSum(segs) == SumSeq([k \in 1..Len(segs) |-> segs[k].duration])

\* the segments handed out so far, the running call included
Played == IF spc = "loop" THEN provenance \o segments_used ELSE provenance

\* the file the cursor points at
CursorFile ==
    folder_states[Folder].videos[folder_states[Folder].current_vid_idx + 1]

\* C6 as stated: for a folder with a readable file of positive length and
\* d > 0, the call returns media whose provenance durations sum to d.
C6_CoversExactlyD ==
    (spc = "returned" /\ HasPlayable /\ target_duration > 0) =>
        /\ result.clip # "None"
        /\ SegSum(result.segments) = target_duration

\* C7 as stated: the provenance of all calls visits the files in
\* sorted-name order from the first one, continues inside a file while it
\* has unplayed duration, moves on (to offset 0 of the next file that can
\* be played, circularly) only when none is left.
C7_MovesOnlyAtEndOfFile ==
    /\ Played # << >> =>
          (Played[1].source_file = NextPlayable(1) /\ Played[1].source_start = 0)
    /\ \A k \in 1..(Len(Played) - 1) :
          LET a == Played[k]
              b == Played[k + 1]
          IN  IF a.source_end = file_len[a.source_file]
              THEN /\ b.source_file = NextPlayable(NameSucc(a.source_file))
                   /\ b.source_start = 0
              ELSE /\ b.source_file = a.source_file
                   /\ b.source_start = a.source_end

\* C7 amended: ... moves on only when the current file has less than 0.1 s
\* left (source_end >= length - 0.1 as computed), or cannot be read.
C7_SortedCircularOrder ==
    /\ Played # << >> =>
          (Played[1].source_file = NextPlayable(1) /\ Played[1].source_start = 0)
    /\ \A k \in 1..(Len(Played) - 1) :
          LET a == Played[k]
              b == Played[k + 1]
          IN  IF a.source_end >= FSubS(file_len[a.source_file], Tenth)
              THEN /\ b.source_file = NextPlayable(NameSucc(a.source_file))
                   /\ b.source_start = 0
              ELSE /\ b.source_file = a.source_file
                   /\ b.source_start = a.source_end

\* two calls on three playable files listed out of order: the second call
\* continues in the file the first one stopped in and wraps to file 1
C7_Witness ==
    /\ spc = "returned"
    /\ ncalls = 2
    /\ NFiles = 3
    /\ listing = << 3, 1, 2 >>
    /\ \A f \in 1..3 : Playable(f)
    /\ Len(provenance) >= 5
    /\ \E k \in 1..(Len(provenance) - 1) :
          /\ provenance[k].source_file = 3
          /\ provenance[k + 1].source_file = 1
    /\ \E k \in 1..(Len(provenance) - 1) :
          /\ provenance[k].source_file = provenance[k + 1].source_file
          /\ provenance[k + 1].source_start > 0

\* scenario B: three files of 5 s, 12 s requested from a fresh cursor
ScenarioB ==
    (/\ NFiles = 3
     /\ \A f \in 1..NFiles : file_len[f] = Secs(5)
     /\ ncalls = 1
     /\ target_duration = Secs(12)) =>
        /\ result.segments =
              << [source_file |-> 1, source_start |-> 0,
                  source_end |-> Secs(5), duration |-> Secs(5)],
                 [source_file |-> 2, source_start |-> 0,
                  source_end |-> Secs(5), duration |-> Secs(5)],
                 [source_file |-> 3, source_start |-> 0,
                  source_end |-> Secs(2), duration |-> Secs(2)] >>
        /\ CursorFile = 3
        /\ folder_states[Folder].current_time = Secs(2)

LastSeg == result.segments[Len(result.segments)]

\* C8 as stated: after a call the cursor is at the file and offset where the
\* last returned segment ended, or at the next file, offset 0, when that
\* segment ended at the end of its file; scenario B.
C8_CursorAtSegmentEnd ==
    (spc = "returned" /\ result.segments # << >>) =>
        /\ IF LastSeg.source_end = file_len[LastSeg.source_file]
           THEN /\ CursorFile = NameSucc(LastSeg.source_file)
                /\ folder_states[Folder].current_time = 0
           ELSE /\ CursorFile = LastSeg.source_file
                /\ folder_states[Folder].current_time = LastSeg.source_end
        /\ ScenarioB

RECURSIVE ReachedBySkips(_, _, _)
\* file c is reached from file f by moving past files that cannot be played
ReachedBySkips(f, c, fuel) ==
    \/ f = c
    \/ /\ fuel > 0
       /\ ~Playable(f)
       /\ ReachedBySkips(NameSucc(f), c, fuel - 1)

\* C8 amended: ... or at offset 0 of the next file when that segment ended
\* less than 0.1 s before the end of its file (source_end >= length - 0.1 as
\* computed) -- of a later file, past unreadable and zero-length files only,
\* when the call went on until its loop guard ran out; scenario B.
C8_CursorAfterCall ==
    (spc = "returned" /\ result.segments # << >>) =>
        /\ IF LastSeg.source_end >= FSubS(file_len[LastSeg.source_file], Tenth)
           THEN /\ folder_states[Folder].current_time = 0
                /\ ReachedBySkips(NameSucc(LastSeg.source_file), CursorFile,
                                  2 * NFiles)
                /\ remaining_duration = 0 =>
                      CursorFile = NameSucc(LastSeg.source_file)
           ELSE /\ CursorFile = LastSeg.source_file
                /\ folder_states[Folder].current_time = LastSeg.source_end
        /\ ScenarioB

C8_Witness ==
    /\ spc = "returned"
    /\ NFiles = 3
    /\ \A f \in 1..NFiles : file_len[f] = Secs(5)
    /\ ncalls = 1
    /\ target_duration = Secs(12)
    /\ Len(result.segments) = 3

\* C9: the loop of a call runs at most 2 x N iterations, whatever the file
\* lengths, the unreadable files and the requested duration.
C9_LoopBound ==
    spc \in {"loop", "returned"} => iterations <= 2 * NFiles

\* only zero-length and unreadable files: the guard ends the loop
C9_Witness ==
    /\ spc = "returned"
    /\ NFiles = 3
    /\ ~HasPlayable
    /\ \E f \in 1..NFiles : file_len[f] = 0
    /\ \E f \in 1..NFiles : file_len[f] = Unreadable
    /\ iterations = 2 * NFiles
    /\ remaining_duration > 0

\* C10 as stated: when the loop guard is exhausted before the requested
\* duration is filled, the call returns no media handle.
C10_ExhaustionFails ==
    (/\ spc = "returned"
     /\ result.tuple
     /\ loop_guard >= max_loops
     /\ remaining_duration > 0) => result.clip = "None"

\* the cursor of the folder: (file index, offset)
Cursor == << folder_states[Folder].current_vid_idx,
             folder_states[Folder].current_time >>

\* C11: when the file at the cursor cannot be read the call does not raise,
\* the cursor moves to the next file (circularly) at offset 0, and the
\* requested duration is filled from the readable files that follow.
C11_UnreadableSkippedAndFilled ==
    /\ [][(spc = "loop" /\ read_errors' = read_errors + 1) =>
             /\ matcher_exc' = ""
             /\ spc' = "loop"
             /\ Cursor' = << NextVidIdx(Cursor[1],
                                        Len(folder_states[Folder].videos)),
                             0 >>]_vars
    /\ [](spc = "returned" /\ read_errors > 0 /\ HasPlayable =>
             /\ result.clip # "None"
             /\ SegSum(result.segments) = target_duration)

\* every cursor is at the first file, offset 0, and the file lists are kept
CursorsCleared ==
    \A f \in DOMAIN folder_states :
        /\ folder_states[f].current_vid_idx = 0
        /\ folder_states[f].current_time = 0
        /\ folder_states[f].videos = SortedVideos(listing)

\* C13: when the reset at the start of an output video has run, nothing was
\* raised, every cursor is cleared (so the next sequential slice starts at
\* the first file, offset 0) and the discovered file lists are kept.
C13_ResetClearsCursors ==
    spc = "reset" => matcher_exc = "" /\ CursorsCleared

\* C12: a chunk whose folder holds no video file is prepared, in sequential
\* and in random mode, as a placeholder of the needed duration at the target
\* resolution, and the run does not fail on it.
C12_EmptyFolderPlaceholder ==
    chunk.videos = "none" =>
        /\ run_exc # "TypeError"
        /\ chunk.clip = "ColorClip"
        /\ chunk.duration = "needed_duration"
        /\ chunk.size = "config.width, config.height"

\* C18: the futures submitted and not yet reaped by the submitting loop are
\* never more than 2 * MAX_WORKERS; a chunk is submitted only when fewer
\* than that are pending, and while the list is full and none of its jobs
\* has finished the loop does not move.
C18_PendingBounded ==
    /\ [](rpc # "cores" => Len(futures) <= 2 * MAX_WORKERS)
    /\ [][Len(futures') > Len(futures) =>
             /\ Len(futures) < 2 * MAX_WORKERS
             /\ Len(futures') = Len(futures) + 1]_vars
    /\ [][(/\ rpc = "loop"
           /\ task_idx < n_tasks
           /\ Len(futures) >= 2 * MAX_WORKERS
           /\ \A k \in 1..Len(futures) : ~Finished(futures[k])) =>
             UNCHANGED << task_idx, futures, rpc, run_exc >>]_vars

\* the list is full, nothing has finished: the submitting loop is blocked
C18_Witness ==
    /\ rpc = "loop"
    /\ task_idx < n_tasks
    /\ Len(futures) = 2 * MAX_WORKERS
    /\ \A k \in 1..Len(futures) : ~Finished(futures[k])
    /\ Cardinality(Running) = MAX_WORKERS

\* C19: for every number of cores c >= 1 the derived counts satisfy
\* MAX_WORKERS * THREADS_PER_JOB <= c and MAX_WORKERS <= 16.
C19_WithinCores ==
    (rpc # "cores" /\ cpu_count >= 1) =>
        /\ MAX_WORKERS * THREADS_PER_JOB <= cpu_count
        /\ MAX_WORKERS <= 16

AnyFailed == \E k \in DOMAIN job : job[k] = "failed"

C17_ExactTargetSize ==
    zpc = "returned" =>
        /\ same_clip = (clip_size = target_size)
        /\ out_size = target_size

\* the durations of the cuts returned by the last call
CutDurations == [k \in 1..Len(result.segments) |-> result.segments[k].duration]

\* C14: for a folder with at least one video file, get_random_cut_clip
\* returns cuts whose durations sum to within 0.05 s of the target.
C14_RandomCoversTarget ==
    (spc = "random_returned" /\ NFiles >= 1) =>
        AbsDiff(SegSum(result.segments), target_duration) <= Twentieth

C16_RandomLeavesCursor ==
    /\ spc \in {"random", "random_returned"} =>
          folder_states = InitFolderState(states_before)
    /\ C7_SortedCircularOrder

\* cuts were returned while the cursor stayed inside a file, where an
\* earlier sequential call had left it
C16_Witness ==
    /\ spc = "random_returned"
    /\ result.segments # << >>
    /\ Folder \in DOMAIN states_before
    /\ folder_states = states_before
    /\ folder_states[Folder].current_time > 0

\* C21: once the encode job of a chunk has failed, the rendering loop submits
\* no further chunk of the batch, and no job that is still waiting in the
\* pool's queue is started any more: the jobs left are abandoned before the
\* error leaves the loop.
C21_FailureAbandonsJobs ==
    [][AnyFailed =>
          /\ task_idx' = task_idx
          /\ \A k \in DOMAIN job : job[k] = "queued" => job'[k] = "queued"]_vars

\* C28: when the rendering loop of a batch of N chunks has completed, the
\* batch metadata holds exactly N records, one for each chunk index 0..N-1
\* in ascending order.
C28_OneRecordPerChunk ==
    rpc = "collect" =>
        batch_metadata = [k \in 1..n_tasks |-> k - 1]

InFutures(f) == \E k \in 1..Len(futures) : futures[k] = f

\* C23: the part list is built, and the assembly of the batch begun, only
\* when the encode job of every chunk has returned its part; the list then
\* holds one entry for each chunk, in ascending chunk order, whatever the
\* order in which the jobs finished.
C23_PartsAfterAllJobs ==
    (rpc \in {"assemble", "skipped"} \/ part_files # << >>) =>
        /\ \A k \in DOMAIN job : job[k] = "ok"
        /\ part_files = [k \in 1..n_tasks |-> k - 1]

\* the parts are collected after the job of chunk 1 had finished before the
\* job of chunk 0
C23_Witness ==
    /\ rpc = "assemble"
    /\ n_tasks = MaxTasks
    /\ InFutures(0)
    /\ ~InFutures(1)

\* C24: in every interleaving of the controlling thread and the workers,
\* every call of the Matcher, which alone reads and writes the folder
\* cursors, is made by the controlling thread, and the call for a chunk is
\* made before the job of that chunk is submitted.
C24_CursorOnControllerThread ==
    /\ \A c \in 1..Len(matcher_calls) :
          /\ matcher_calls[c].thread = "main"
          /\ matcher_calls[c].chunk = c - 1
    /\ \A k \in DOMAIN job : job[k] # "none" => k < Len(matcher_calls)

\* two workers are encoding while the controlling thread has already made
\* the calls for later chunks
C24_Witness ==
    /\ rpc = "loop"
    /\ Cardinality(Running) = MAX_WORKERS
    /\ Len(matcher_calls) > MAX_WORKERS
    /\ \E k \in DOMAIN job : job[k] = "ok"

\* C22: a failure while output k is produced (a chunk's encode job or the
\* composite path fails) does not end the run: the error does not leave
\* run(), so that the outputs after k are still attempted and the files of
\* the outputs recorded before k are returned.
C22_FailureIsolated ==
    run_exc \in {"EncodeError", "CompositeError"} =>
        /\ rpc # "raised"
        /\ (rpc = "returned" =>
               \A k \in 1..batch_i :
                  \E j \in 1..Len(returned.files) :
                     returned.files[j] = OutputFile(k - 1))

\* C25: the fast path is entered exactly when the transition type is not
\* Crossfade; whenever it fails, whatever the error, the composite path is
\* run for the same output of the same batch, and the error of the fast
\* path does not leave run().
C25_FastPathFallsBack ==
    /\ paths # << >> =>
          (paths[1] = "fast" <=> config_transition # "Crossfade")
    /\ (fast_error # "" /\ rpc # "paths") =>
          /\ paths = << "fast", "composite" >>
          /\ run_exc # "OSError"

OutputWritten == visual_duration # 0
LastPath == paths[Len(paths)]

\* C26 as stated: in both assembly paths, with A the audio duration, V the
\* duration of the assembled parts and L the duration of the output, V >
\* A + 1.0 gives L = A, V < A gives L = A, and |L - A| <= 1.0 always.
C26_ReconciledBothPaths ==
    OutputWritten =>
        /\ (visual_duration > FAdd(audio_duration, One) =>
               output_duration = audio_duration)
        /\ (visual_duration < audio_duration =>
               output_duration = audio_duration)
        /\ AbsDiff(output_duration, audio_duration) <= One

\* C26, amended: the composite path trims the visual track to L = A when
\* V > A + 1.0, extends it to L = A when V < A and leaves L = V otherwise,
\* so |L - A| <= 1.0; the fast path ends the output with the shorter input,
\* L = min(V, A): never longer than the audio, never extended, and within
\* 1.0 of A exactly when V >= A - 1.0.
C26_CompositeReconcilesFastPathTrims ==
    OutputWritten =>
        IF LastPath = "composite"
        THEN /\ (visual_duration > FAdd(audio_duration, One) =>
                    output_duration = audio_duration)
             /\ (visual_duration < audio_duration =>
                    output_duration = audio_duration)
             /\ (/\ visual_duration >= audio_duration
                 /\ visual_duration <= FAdd(audio_duration, One)
                 => output_duration = visual_duration)
             /\ AbsDiff(output_duration, audio_duration) <= One
        ELSE /\ (visual_duration >= audio_duration =>
                    output_duration = audio_duration)
             /\ (visual_duration < audio_duration =>
                    output_duration = visual_duration)
             /\ (AbsDiff(output_duration, audio_duration) <= One
                 <=> visual_duration >= FSub(audio_duration, One))

\* the fast path has written an output from parts two seconds shorter than
\* the audio
C26_Witness ==
    /\ OutputWritten
    /\ LastPath = "fast"
    /\ visual_duration = FSub(audio_duration, Secs(2))
    /\ output_duration = visual_duration

\* C27 as stated: the subtitle track burned into every output is the source
\* track shifted by exactly -0.5 s.
C27_ShiftedInEveryOutput ==
    burned # Absent => burned = Shifted(0)

\* C27, amended: the shifted file, once written, holds the source track
\* shifted by -0.5 s exactly once, whichever batch finds it; the track
\* burned into an output is that file, or the unshifted source track when
\* the file could not be written.
C27_ShiftNeverAccumulates ==
    /\ shifted_srt \in {Absent, Shifted(0)}
    /\ burned # Absent =>
          burned = IF shifted_srt = Absent THEN 0 ELSE Shifted(0)

\* the second output of a run is burned with the track shifted once
C27_Witness ==
    /\ batch_i = 1
    /\ generated_files = << OutputFile(0), OutputFile(1) >>
    /\ burned = Shifted(0)

\* C29: when writing the metadata sidecar of an output fails, no error
\* leaves run(): the output stays recorded, the run goes on with the next
\* output, and the list run() returns holds the output.
C29_MetadataFailureContained ==
    metadata_file = "failed" =>
        /\ rpc # "raised"
        /\ run_exc = ""
        /\ generated_files # << >>
        /\ (rpc = "returned" => returned.files = generated_files)

\* C30: when the total folder weight is zero or the folder list is empty,
\* the run raises before its rendering loop is entered, and when the audio
\* cannot be loaded it raises before any chunk is planned or prepared.
C30_ConfigErrorsRaise ==
    /\ (total_weight = 0 \/ folder_weights = << >>) =>
          pc \notin {"render", "done"}
    /\ pc = "raised" => (render_tasks = << >> /\ idx = 0)

\* C31: when the folder weights sum to 0, every block the planner leaves
\* has span 0: no folder is given the duration.
C31_ZeroWeightZeroSpans ==
    (Planned /\ total_weight = 0) =>
        \A i \in 1..NBlocks :
            timeline_blocks[i].start = timeline_blocks[i].end

\* C36: under Crossfade, whatever the folder weights (blocks of span 0
\* included), a chunk has pad_head > 0 only if an earlier chunk exists in
\* the render list and pad_tail > 0 only if a later one exists.
C36_NoPadAtVideoEnds ==
    (pc = "done" /\ transition_type = "Crossfade") =>
        \A k \in 1..Len(render_tasks) :
            /\ render_tasks[k].pad_head > 0 => k > 1
            /\ render_tasks[k].pad_tail > 0 => k < Len(render_tasks)

\* C38: after any sequence of sequential and random calls on a folder of
\* N >= 1 files, the cursor of the folder has 0 <= file index < N and an
\* offset that is not negative and not beyond the length of the file the
\* cursor points at (0 when that file cannot be read).
C38_CursorInRange ==
    (Folder \in DOMAIN folder_states /\ NFiles >= 1) =>
        LET state == folder_states[Folder]
            len == file_len[state.videos[state.current_vid_idx + 1]]
        IN  /\ Len(state.videos) = NFiles
            /\ state.current_vid_idx >= 0
            /\ state.current_vid_idx < NFiles
            /\ state.current_time >= 0
            /\ state.current_time <= IF len = Unreadable THEN 0 ELSE len

\* random cuts have been returned after a sequential call had left the
\* cursor inside the second file
C38_Witness ==
    /\ spc = "random_returned"
    /\ result.segments # << >>
    /\ folder_states[Folder].current_vid_idx = 1
    /\ folder_states[Folder].current_time > 0

\* a provenance segment names a listed file and lies inside it
SegmentInsideFile(seg) ==
    /\ seg.source_file \in 1..NFiles
    /\ file_len[seg.source_file] # Unreadable
    /\ 0 <= seg.source_start
    /\ seg.source_start < seg.source_end
    /\ seg.source_end <= file_len[seg.source_file]
    /\ seg.duration = seg.source_end - seg.source_start

\* C39 as stated: every provenance segment a sequential or random call
\* returns names a file of the folder's file list and lies inside that file:
\* 0 <= source_start < source_end <= file length, and duration = source_end -
\* source_start.
C39_SegmentsInsideFiles ==
    spc \in {"returned", "random_returned"} =>
        \A k \in 1..Len(result.segments) :
            SegmentInsideFile(result.segments[k])

\* x is at most y but for one rounding of a float of the size of scale
WithinRounding(x, y, scale) == (x - y) * 2 ^ (Prec - 1) <= scale

\* a segment starts inside its file, and its end is the float sum of its
\* start and its length
SegmentStartsInsideFile(seg) ==
    /\ seg.source_file \in 1..NFiles
    /\ file_len[seg.source_file] # Unreadable
    /\ 0 <= seg.source_start
    /\ seg.source_start < file_len[seg.source_file]
    /\ seg.duration > 0
    /\ seg.duration <= file_len[seg.source_file]
    /\ seg.source_start < seg.source_end
    /\ seg.source_end = FAdd(seg.source_start, seg.duration)
    /\ WithinRounding(seg.source_end, file_len[seg.source_file],
                      file_len[seg.source_file])
    /\ WithinRounding(AbsDiff(seg.source_end - seg.source_start,
                              seg.duration), 0, seg.source_end)

\* C39 (amended): every provenance segment a sequential or random call
\* returns names a readable file of the folder's file list and starts inside
\* it; its duration is the positive length taken, no longer than the file,
\* and its source_end is the float sum source_start + duration, so that
\* source_end <= file length and duration = source_end - source_start hold
\* up to one rounding of that sum.
C39_SegmentsInsideFilesRounded ==
    spc \in {"returned", "random_returned"} =>
        \A k \in 1..Len(result.segments) :
            SegmentStartsInsideFile(result.segments[k])

\* a random cut whose recorded end is a rounded sum has been returned
C39_Witness ==
    /\ spc = "random_returned"
    /\ \E k \in 1..Len(result.segments) :
          LET seg == result.segments[k]
          IN  /\ seg.source_start > 0
              /\ seg.source_end - seg.source_start # seg.duration

\* a batch failed: its assembly raised (the AttributeError of the batch loop
\* is raised between two batches, by none of them)
BatchFailed == run_exc \in {"OSError", "CompositeError"}

\* C34: when no batch fails, run() ends by returning exactly batch_count
\* paths, batch_1.mp4 .. batch_n.mp4 in order, each once.
C34_ReturnsAllPaths ==
    (rpc \in {"returned", "raised"} /\ n_tasks > 0 /\ ~BatchFailed) =>
        /\ returned.done
        /\ returned.files = [k \in 1..batch_count |-> OutputFile(k - 1)]

\* every chunk has been submitted once and rendered, and the part list of
\* the batch has been collected
AllRendered ==
    /\ rpc \in {"assemble", "skipped"}
    /\ task_idx = n_tasks
    /\ Len(matcher_calls) = n_tasks
    /\ \A k \in 0..(n_tasks - 1) :
          /\ job[k] = "ok"
          /\ Cardinality({ j \in 1..Len(matcher_calls) :
                             matcher_calls[j].chunk = k }) = 1

\* C37: when no encode job fails and every job comes to its end, the loop
\* never stays in its backpressure wait: every chunk is submitted exactly
\* once, every job completes, and the assembly eventually begins.
C37_SubmitsAllAndAssembles == ([]~AnyFailed) => <>AllRendered

\* C37 for batches whose every fetch returns a pair
C37_NoTypeError == ([](~AnyFailed /\ run_exc # "TypeError")) => <>AllRendered

\* C32: a chunk is cut in random mode exactly when clip_min_duration > 0.1
\* and clip_max_duration > clip_min_duration, in sequential mode otherwise
\* (so when both are 0); the duration fetched is (duration + pad_head +
\* pad_tail) * speed, and the bounds passed in random mode are the
\* configured bounds times the same speed.
C32_ModeAndFetchDuration ==
    (fpc = "fetched" /\ fetch_task.folder # "") =>
        LET t == fetch_task
            random == /\ t.clip_min_duration > Tenth
                      /\ t.clip_max_duration > t.clip_min_duration
        IN  /\ fetch_call.method = IF random THEN "get_random_cut_clip"
                                   ELSE "get_ordered_clip"
            /\ (t.clip_min_duration = 0 /\ t.clip_max_duration = 0) =>
                   fetch_call.method = "get_ordered_clip"
            /\ fetch_call.folder = t.folder
            /\ fetch_call.duration =
                   FMul(FAdd(FAdd(t.duration, t.pad_head), t.pad_tail),
                        t.speed)
            /\ random => /\ fetch_call.min_dur =
                               FMul(t.clip_min_duration, t.speed)
                         /\ fetch_call.max_dur =
                               FMul(t.clip_max_duration, t.speed)

\* a padded chunk played at 1.25x has been fetched in random mode
C32_Witness ==
    /\ fpc = "fetched"
    /\ fetch_call.method = "get_random_cut_clip"
    /\ fetch_task.pad_head > 0
    /\ fetch_task.speed = One + One \div 4
    /\ fetch_call.duration > fetch_task.duration
    /\ fetch_call.min_dur > fetch_task.clip_min_duration

\* the parts of the scenes, in order
RECURSIVE Flatten(_)
Flatten(ss) == IF ss = << >> THEN << >> ELSE Head(ss) \o Flatten(Tail(ss))

\* the block a part comes from
BlockOf(chunk_index) == render_tasks[chunk_index + 1].block_index

\* the blocks that have at least one chunk
BlocksWithChunks == { render_tasks[k].block_index : k \in 1..Len(render_tasks) }

\* C33: the composite path folds the ordered part list into scenes by
\* contiguous runs of equal block_index: every part is in exactly one scene,
\* the parts of a scene keep their chunk order, the scenes keep the order of
\* the blocks, and there are as many scenes as blocks with a chunk.
C33_ScenesAreBlocks ==
    pc \in {"grouped", "composed"} =>
        /\ Flatten(logical_blocks) =
               [k \in 1..Len(render_tasks) |-> k - 1]
        /\ \A s \in 1..Len(logical_blocks) :
              /\ logical_blocks[s] # << >>
              /\ \A k \in 1..Len(logical_blocks[s]) :
                    BlockOf(logical_blocks[s][k]) = BlockOf(logical_blocks[s][1])
        /\ \A s \in 1..(Len(logical_blocks) - 1) :
              BlockOf(logical_blocks[s][1]) < BlockOf(logical_blocks[s + 1][1])
        /\ Len(logical_blocks) = Cardinality(BlocksWithChunks)

\* two scenes have been formed of three blocks, one of them of several
\* parts, the block between them having no chunk
C33_Witness ==
    /\ pc = "grouped"
    /\ Len(logical_blocks) = 2
    /\ NBlocks = 3
    /\ \E s \in 1..2 : Len(logical_blocks[s]) >= 2
    /\ BlockOf(logical_blocks[2][1]) = 2
    /\ BlockOf(logical_blocks[1][1]) = 0

\* x and y differ by no more than a few roundings of floats of their size
NearlyEqual(x, y) == AbsDiff(x, y) * 2 ^ (Prec - 3) <= x

C35_JunctionsLengthenTheTrack ==
    (/\ pc = "composed"
     /\ transition_type = "Crossfade"
     /\ Cardinality(BlocksWithChunks) >= 2
     /\ Cardinality(BlocksWithChunks) = NBlocks) =>
        \E junctions \in {NBlocks - 1, NBlocks - 2} :
            NearlyEqual(final_video_visual,
                        total_duration + junctions * transition_duration)

\* C40: the preprocessing of a video in place never loses the source: when
\* it returns failure, the original is still at its path, unchanged, and no
\* file is left at temp_path; the original is replaced only after the
\* encoder has succeeded.
C40_SourceNeverLost ==
    /\ (qpc = "returned" /\ ~task_result.success) =>
           (v_file = "source" /\ temp_file = "absent")
    /\ (qpc # "off" /\ v_file # "source") => ffmpeg_exit = "ok"

\* C40 without its first half: the original is touched only after the
\* encoder has succeeded, and a success leaves the source or the encoded
\* video at v_path
C40_ReplacedAfterEncode ==
    /\ (qpc # "off" /\ v_file # "source") => ffmpeg_exit = "ok"
    /\ (qpc = "returned" /\ task_result.success) =>
           v_file \in {"source", "encoded"}

====
